---------------------------- MODULE Spec2Model ----------------------------
(***************************************************************************)
(* Model of the gap-detection-and-reconciliation engine of                 *)
(* async_travel_parser.py (class AsyncTravelParser) and of the pipeline    *)
(* run_async drives: load -> identify gaps -> filter documents -> extract  *)
(* candidates -> match -> clean -> merge -> analyse -> verify -> persist.  *)
(*                                                                         *)
(* Strings are TLA+ strings; the text conversions of the program           *)
(* (str.strip, str.lower, str.upper, str.split, re.sub, strptime) are      *)
(* computed character by character.                                        *)
(***************************************************************************)
EXTENDS Integers, Sequences, FiniteSets, TLC

(***************************************************************************)
(* Bounds of the model.                                                    *)
(***************************************************************************)
MaxLegs == 3
MaxCand == 2
MaxTravelEmails == 17
MaxDocuments == 1050

(***************************************************************************)
(* Python string primitives.                                               *)
(***************************************************************************)
UpperChars ==
    {"A", "B", "C", "D", "E", "F", "G", "H", "I", "J", "K", "L", "M",
     "N", "O", "P", "Q", "R", "S", "T", "U", "V", "W", "X", "Y", "Z"}
LowerChars ==
    {"a", "b", "c", "d", "e", "f", "g", "h", "i", "j", "k", "l", "m",
     "n", "o", "p", "q", "r", "s", "t", "u", "v", "w", "x", "y", "z"}
DigitChars == {"0", "1", "2", "3", "4", "5", "6", "7", "8", "9"}
WhitespaceChars == {" ", "\t", "\n", "\r", "\f"}

CharAt(s, i) == SubSeq(s, i, i)

IsDigit(c) == c \in DigitChars
IsAlphaChar(c) == c \in UpperChars \/ c \in LowerChars
IsUpperChar(c) == c \in UpperChars

LowerChar(c) ==
    CASE c = "A" -> "a"
      [] c = "B" -> "b"
      [] c = "C" -> "c"
      [] c = "D" -> "d"
      [] c = "E" -> "e"
      [] c = "F" -> "f"
      [] c = "G" -> "g"
      [] c = "H" -> "h"
      [] c = "I" -> "i"
      [] c = "J" -> "j"
      [] c = "K" -> "k"
      [] c = "L" -> "l"
      [] c = "M" -> "m"
      [] c = "N" -> "n"
      [] c = "O" -> "o"
      [] c = "P" -> "p"
      [] c = "Q" -> "q"
      [] c = "R" -> "r"
      [] c = "S" -> "s"
      [] c = "T" -> "t"
      [] c = "U" -> "u"
      [] c = "V" -> "v"
      [] c = "W" -> "w"
      [] c = "X" -> "x"
      [] c = "Y" -> "y"
      [] c = "Z" -> "z"
      [] OTHER -> c

UpperChar(c) ==
    CASE c = "a" -> "A"
      [] c = "b" -> "B"
      [] c = "c" -> "C"
      [] c = "d" -> "D"
      [] c = "e" -> "E"
      [] c = "f" -> "F"
      [] c = "g" -> "G"
      [] c = "h" -> "H"
      [] c = "i" -> "I"
      [] c = "j" -> "J"
      [] c = "k" -> "K"
      [] c = "l" -> "L"
      [] c = "m" -> "M"
      [] c = "n" -> "N"
      [] c = "o" -> "O"
      [] c = "p" -> "P"
      [] c = "q" -> "Q"
      [] c = "r" -> "R"
      [] c = "s" -> "S"
      [] c = "t" -> "T"
      [] c = "u" -> "U"
      [] c = "v" -> "V"
      [] c = "w" -> "W"
      [] c = "x" -> "X"
      [] c = "y" -> "Y"
      [] c = "z" -> "Z"
      [] OTHER -> c

DigitValue(c) ==
    CASE c = "0" -> 0
      [] c = "1" -> 1
      [] c = "2" -> 2
      [] c = "3" -> 3
      [] c = "4" -> 4
      [] c = "5" -> 5
      [] c = "6" -> 6
      [] c = "7" -> 7
      [] c = "8" -> 8
      [] c = "9" -> 9
      [] OTHER -> 0

\* str.lower()
RECURSIVE Lower(_)
Lower(s) == IF s = "" THEN "" ELSE LowerChar(Head(s)) \o Lower(Tail(s))

\* str.upper()
RECURSIVE Upper(_)
Upper(s) == IF s = "" THEN "" ELSE UpperChar(Head(s)) \o Upper(Tail(s))

RECURSIVE LStrip(_)
LStrip(s) == IF s # "" /\ Head(s) \in WhitespaceChars THEN LStrip(Tail(s)) ELSE s

RECURSIVE RStrip(_)
RStrip(s) ==
    IF s # "" /\ CharAt(s, Len(s)) \in WhitespaceChars
    THEN RStrip(SubSeq(s, 1, Len(s) - 1))
    ELSE s

\* str.strip()
Strip(s) == RStrip(LStrip(s))

\* sub in s
Contains(sub, s) ==
    \E i \in 1..(Len(s) - Len(sub) + 1) : SubSeq(s, i, i + Len(sub) - 1) = sub

\* str.find(sub, from) with 1-based positions, 0 when absent
Find(sub, s, from) ==
    LET hits == {i \in from..(Len(s) - Len(sub) + 1) : SubSeq(s, i, i + Len(sub) - 1) = sub}
    IN  IF hits = {} THEN 0 ELSE CHOOSE i \in hits : \A j \in hits : i <= j

\* s.split(sep)[0]
SplitFirst(s, sep) ==
    LET p == Find(sep, s, 1) IN IF p = 0 THEN s ELSE SubSeq(s, 1, p - 1)

\* s.split(sep), sep non-empty
RECURSIVE Split(_, _)
Split(s, sep) ==
    LET p == Find(sep, s, 1)
    IN  IF p = 0 THEN <<s>>
        ELSE <<SubSeq(s, 1, p - 1)>> \o Split(SubSeq(s, p + Len(sep), Len(s)), sep)

AllDigits(s) == s # "" /\ \A i \in 1..Len(s) : IsDigit(CharAt(s, i))

\* value of a non-empty string of decimal digits
RECURSIVE DigitsValue(_)
DigitsValue(s) ==
    IF s = "" THEN 0
    ELSE 10 * DigitsValue(SubSeq(s, 1, Len(s) - 1)) + DigitValue(CharAt(s, Len(s)))

(***************************************************************************)
(* extract_city_name: re.sub(r'\s*\([^)]*\)', '', s), then                 *)
(* .split(' - ')[0].split(',')[0].strip()                                  *)
(***************************************************************************)
RECURSIVE SpaceRun(_)
SpaceRun(s) == IF s # "" /\ Head(s) \in WhitespaceChars THEN 1 + SpaceRun(Tail(s)) ELSE 0

RECURSIVE RemoveParenthesized(_)
RemoveParenthesized(s) ==
    IF s = "" THEN ""
    ELSE LET rest == SubSeq(s, SpaceRun(s) + 1, Len(s))
             close == IF rest # "" /\ Head(rest) = "(" THEN Find(")", rest, 2) ELSE 0
         IN  IF close > 0
             THEN RemoveParenthesized(SubSeq(rest, close + 1, Len(rest)))
             ELSE Head(s) \o RemoveParenthesized(Tail(s))

extract_city_name(city_string) ==
    Strip(SplitFirst(SplitFirst(RemoveParenthesized(city_string), " - "), ","))

(***************************************************************************)
(* normalize_country_code and its alias table.                             *)
(***************************************************************************)
country_mappings ==
    ("UK" :> "GB") @@ ("UNITED KINGDOM" :> "GB") @@ ("BRITAIN" :> "GB") @@ ("ENGLAND" :> "GB") @@
    ("SCOTLAND" :> "GB") @@ ("WALES" :> "GB") @@ ("USA" :> "US") @@ ("UNITED STATES" :> "US") @@
    ("AMERICA" :> "US") @@ ("DEUTSCHLAND" :> "DE") @@ ("ALLEMAGNE" :> "DE") @@ ("FRANCE" :> "FR") @@
    ("ESPANA" :> "ES") @@ ("SPAIN" :> "ES") @@ ("ITALIA" :> "IT") @@ ("ITALY" :> "IT") @@
    ("NEDERLAND" :> "NL") @@ ("HOLLAND" :> "NL") @@ ("NEDERLANDEN" :> "NL") @@ ("BELGIE" :> "BE") @@
    ("BELGIUM" :> "BE") @@ ("SCHWEIZ" :> "CH") @@ ("SUISSE" :> "CH") @@ ("SVIZZERA" :> "CH") @@
    ("OSTERREICH" :> "AT") @@ ("AUSTRIA" :> "AT") @@ ("DANMARK" :> "DK") @@ ("DENMARK" :> "DK") @@
    ("SVERIGE" :> "SE") @@ ("SWEDEN" :> "SE") @@ ("NORGE" :> "NO") @@ ("NORWAY" :> "NO") @@
    ("SUOMI" :> "FI") @@ ("FINLAND" :> "FI") @@ ("ISLAND" :> "IS") @@ ("ICELAND" :> "IS") @@
    ("EIRE" :> "IE") @@ ("IRELAND" :> "IE") @@ ("POLSKA" :> "PL") @@ ("POLAND" :> "PL") @@
    ("CESKA REPUBLIKA" :> "CZ") @@ ("CZECH REPUBLIC" :> "CZ") @@ ("CZECHIA" :> "CZ") @@ ("MAGYARORSZAG" :> "HU") @@
    ("HUNGARY" :> "HU") @@ ("SLOVENSKO" :> "SK") @@ ("SLOVAKIA" :> "SK") @@ ("SLOVENIJA" :> "SI") @@
    ("SLOVENIA" :> "SI") @@ ("HRVATSKA" :> "HR") @@ ("CROATIA" :> "HR") @@ ("SRBIJA" :> "RS") @@
    ("SERBIA" :> "RS") @@ ("BULGARIA" :> "BG") @@ ("ROMANIA" :> "RO") @@ ("ELLADA" :> "GR") @@
    ("GREECE" :> "GR") @@ ("TURKIYE" :> "TR") @@ ("TURKEY" :> "TR") @@ ("ROSSIYA" :> "RU") @@
    ("RUSSIA" :> "RU") @@ ("UKRAINA" :> "UA") @@ ("UKRAINE" :> "UA") @@ ("BELARUS" :> "BY") @@
    ("LITHUANIA" :> "LT") @@ ("LATVIA" :> "LV") @@ ("ESTONIA" :> "EE") @@ ("PORTUGAL" :> "PT") @@
    ("LUXEMBOURG" :> "LU") @@ ("MALTA" :> "MT") @@ ("CYPRUS" :> "CY") @@ ("LIECHTENSTEIN" :> "LI") @@
    ("MONACO" :> "MC") @@ ("ANDORRA" :> "AD") @@ ("SAN MARINO" :> "SM") @@ ("VATICAN" :> "VA") @@
    ("JAPAN" :> "JP") @@ ("NIPPON" :> "JP") @@ ("KOREA" :> "KR") @@ ("SOUTH KOREA" :> "KR") @@
    ("CHINA" :> "CN") @@ ("TAIWAN" :> "TW") @@ ("HONG KONG" :> "HK") @@ ("MACAU" :> "MO") @@
    ("INDIA" :> "IN") @@ ("PAKISTAN" :> "PK") @@ ("BANGLADESH" :> "BD") @@ ("SRI LANKA" :> "LK") @@
    ("MALDIVES" :> "MV") @@ ("NEPAL" :> "NP") @@ ("BHUTAN" :> "BT") @@ ("AFGHANISTAN" :> "AF") @@
    ("IRAN" :> "IR") @@ ("IRAQ" :> "IQ") @@ ("SYRIA" :> "SY") @@ ("LEBANON" :> "LB") @@
    ("JORDAN" :> "JO") @@ ("ISRAEL" :> "IL") @@ ("PALESTINE" :> "PS") @@ ("SAUDI ARABIA" :> "SA") @@
    ("UAE" :> "AE") @@ ("UNITED ARAB EMIRATES" :> "AE") @@ ("QATAR" :> "QA") @@ ("KUWAIT" :> "KW") @@
    ("BAHRAIN" :> "BH") @@ ("OMAN" :> "OM") @@ ("YEMEN" :> "YE") @@ ("EGYPT" :> "EG") @@
    ("LIBYA" :> "LY") @@ ("TUNISIA" :> "TN") @@ ("ALGERIA" :> "DZ") @@ ("MOROCCO" :> "MA") @@
    ("SUDAN" :> "SD") @@ ("SOUTH SUDAN" :> "SS") @@ ("ETHIOPIA" :> "ET") @@ ("ERITREA" :> "ER") @@
    ("DJIBOUTI" :> "DJ") @@ ("SOMALIA" :> "SO") @@ ("KENYA" :> "KE") @@ ("UGANDA" :> "UG") @@
    ("TANZANIA" :> "TZ") @@ ("RWANDA" :> "RW") @@ ("BURUNDI" :> "BI") @@ ("MALAWI" :> "MW") @@
    ("ZAMBIA" :> "ZM") @@ ("ZIMBABWE" :> "ZW") @@ ("BOTSWANA" :> "BW") @@ ("NAMIBIA" :> "NA") @@
    ("SOUTH AFRICA" :> "ZA") @@ ("ESWATINI" :> "SZ") @@ ("LESOTHO" :> "LS") @@ ("MADAGASCAR" :> "MG") @@
    ("MAURITIUS" :> "MU") @@ ("SEYCHELLES" :> "SC") @@ ("COMOROS" :> "KM") @@ ("MOZAMBIQUE" :> "MZ") @@
    ("ANGOLA" :> "AO") @@ ("CONGO" :> "CD") @@ ("DEMOCRATIC REPUBLIC OF CONGO" :> "CD") @@ ("REPUBLIC OF CONGO" :> "CG") @@
    ("CENTRAL AFRICAN REPUBLIC" :> "CF") @@ ("CHAD" :> "TD") @@ ("CAMEROON" :> "CM") @@ ("EQUATORIAL GUINEA" :> "GQ") @@
    ("GABON" :> "GA") @@ ("SAO TOME AND PRINCIPE" :> "ST") @@ ("GHANA" :> "GH") @@ ("TOGO" :> "TG") @@
    ("BENIN" :> "BJ") @@ ("NIGER" :> "NE") @@ ("BURKINA FASO" :> "BF") @@ ("MALI" :> "ML") @@
    ("SENEGAL" :> "SN") @@ ("GAMBIA" :> "GM") @@ ("GUINEA-BISSAU" :> "GW") @@ ("GUINEA" :> "GN") @@
    ("SIERRA LEONE" :> "SL") @@ ("LIBERIA" :> "LR") @@ ("IVORY COAST" :> "CI") @@ ("COTE D'IVOIRE" :> "CI") @@
    ("CANADA" :> "CA") @@ ("MEXICO" :> "MX") @@ ("GUATEMALA" :> "GT") @@ ("BELIZE" :> "BZ") @@
    ("EL SALVADOR" :> "SV") @@ ("HONDURAS" :> "HN") @@ ("NICARAGUA" :> "NI") @@ ("COSTA RICA" :> "CR") @@
    ("PANAMA" :> "PA") @@ ("CUBA" :> "CU") @@ ("JAMAICA" :> "JM") @@ ("HAITI" :> "HT") @@
    ("DOMINICAN REPUBLIC" :> "DO") @@ ("PUERTO RICO" :> "PR") @@ ("TRINIDAD AND TOBAGO" :> "TT") @@ ("BARBADOS" :> "BB") @@
    ("ANTIGUA AND BARBUDA" :> "AG") @@ ("DOMINICA" :> "DM") @@ ("GRENADA" :> "GD") @@ ("SAINT KITTS AND NEVIS" :> "KN") @@
    ("SAINT LUCIA" :> "LC") @@ ("SAINT VINCENT AND THE GRENADINES" :> "VC") @@ ("BAHAMAS" :> "BS") @@ ("ARGENTINA" :> "AR") @@
    ("BOLIVIA" :> "BO") @@ ("BRAZIL" :> "BR") @@ ("CHILE" :> "CL") @@ ("COLOMBIA" :> "CO") @@
    ("ECUADOR" :> "EC") @@ ("FALKLAND ISLANDS" :> "FK") @@ ("FRENCH GUIANA" :> "GF") @@ ("GUYANA" :> "GY") @@
    ("PARAGUAY" :> "PY") @@ ("PERU" :> "PE") @@ ("SURINAME" :> "SR") @@ ("URUGUAY" :> "UY") @@
    ("VENEZUELA" :> "VE") @@ ("AUSTRALIA" :> "AU") @@ ("NEW ZEALAND" :> "NZ") @@ ("FIJI" :> "FJ") @@
    ("PAPUA NEW GUINEA" :> "PG") @@ ("SOLOMON ISLANDS" :> "SB") @@ ("VANUATU" :> "VU") @@ ("NEW CALEDONIA" :> "NC") @@
    ("FRENCH POLYNESIA" :> "PF") @@ ("SAMOA" :> "WS") @@ ("TONGA" :> "TO") @@ ("KIRIBATI" :> "KI") @@
    ("TUVALU" :> "TV") @@ ("NAURU" :> "NR") @@ ("PALAU" :> "PW") @@ ("MICRONESIA" :> "FM") @@
    ("MARSHALL ISLANDS" :> "MH") @@ ("AMERICAN SAMOA" :> "AS") @@ ("GUAM" :> "GU") @@ ("NORTHERN MARIANA ISLANDS" :> "MP") @@
    ("US VIRGIN ISLANDS" :> "VI") @@ ("BRITISH VIRGIN ISLANDS" :> "VG") @@ ("ANGUILLA" :> "AI") @@ ("ARUBA" :> "AW") @@
    ("BONAIRE" :> "BQ") @@ ("CURACAO" :> "CW") @@ ("SINT MAARTEN" :> "SX") @@ ("SAINT BARTHELEMY" :> "BL") @@
    ("SAINT MARTIN" :> "MF") @@ ("GUADELOUPE" :> "GP") @@ ("MARTINIQUE" :> "MQ") @@ ("REUNION" :> "RE") @@
    ("MAYOTTE" :> "YT") @@ ("SAINT HELENA" :> "SH") @@ ("ASCENSION ISLAND" :> "AC") @@ ("TRISTAN DA CUNHA" :> "TA") @@
    ("SOUTH GEORGIA AND THE SOUTH SANDWICH ISLANDS" :> "GS") @@ ("HEARD ISLAND AND MCDONALD ISLANDS" :> "HM") @@ ("FRENCH SOUTHERN TERRITORIES" :> "TF") @@ ("ANTARCTICA" :> "AQ") @@
    ("BOUVET ISLAND" :> "BV") @@ ("SVALBARD AND JAN MAYEN" :> "SJ") @@ ("GREENLAND" :> "GL") @@ ("FAROE ISLANDS" :> "FO") @@
    ("ALAND ISLANDS" :> "AX") @@ ("JERSEY" :> "JE") @@ ("GUERNSEY" :> "GG") @@ ("ISLE OF MAN" :> "IM") @@
    ("GIBRALTAR" :> "GI") @@ ("MOLDOVA" :> "MD") @@ ("ALBANIA" :> "AL") @@ ("MONTENEGRO" :> "ME") @@
    ("BOSNIA AND HERZEGOVINA" :> "BA") @@ ("SWITZERLAND" :> "CH") @@ ("GERMANY" :> "DE") @@ ("NETHERLANDS" :> "NL")

IsAlpha(s) == s # "" /\ \A i \in 1..Len(s) : IsAlphaChar(CharAt(s, i))

NormalizeUntrimmed(country_code) ==
    IF country_code = "" THEN "Unknown"
    ELSE IF Upper(country_code) \in DOMAIN country_mappings
         THEN country_mappings[Upper(country_code)]
         ELSE Upper(country_code)

normalize_country_code(country_code) ==
    IF country_code = "" \/ Strip(country_code) = "" THEN "Unknown"
    ELSE LET code == Upper(Strip(country_code))
         IN  IF code \in DOMAIN country_mappings THEN country_mappings[code]
             ELSE IF Len(code) = 2 /\ IsAlpha(code) THEN code
             ELSE code

normalize_travel_entry_country_codes(entry) ==
    [k \in DOMAIN entry |->
        IF k \in {"departure_country", "arrival_country"}
        THEN normalize_country_code(entry[k])
        ELSE entry[k]]

(***************************************************************************)
(* Dates and times: datetime.strptime(s, '%Y-%m-%d'), date arithmetic and  *)
(* the sort key of sort_travel_data_chronologically.                       *)
(***************************************************************************)
IsLeap(y) == (y % 4 = 0 /\ y % 100 # 0) \/ y % 400 = 0

DaysInMonth(y, m) ==
    IF m = 2 THEN (IF IsLeap(y) THEN 29 ELSE 28)
    ELSE IF m \in {4, 6, 9, 11} THEN 30 ELSE 31

RECURSIVE DaysBeforeMonth(_, _)
DaysBeforeMonth(y, m) == IF m = 1 THEN 0 ELSE DaysBeforeMonth(y, m - 1) + DaysInMonth(y, m - 1)

\* date.toordinal(): 0001-01-01 is day 1
Ordinal(y, m, d) ==
    (y - 1) * 365 + ((y - 1) \div 4) - ((y - 1) \div 100) + ((y - 1) \div 400)
        + DaysBeforeMonth(y, m) + d

\* strptime(s, '%Y-%m-%d'): the day ordinal, or -1 for ValueError
ParseDate(s) ==
    LET parts == Split(s, "-")
    IN  IF /\ Len(parts) = 3
           /\ AllDigits(parts[1]) /\ Len(parts[1]) = 4
           /\ AllDigits(parts[2]) /\ Len(parts[2]) <= 2
           /\ AllDigits(parts[3]) /\ Len(parts[3]) <= 2
        THEN LET y == DigitsValue(parts[1])
                 m == DigitsValue(parts[2])
                 d == DigitsValue(parts[3])
             IN  IF y >= 1 /\ m \in 1..12 /\ d >= 1 /\ d <= DaysInMonth(y, m)
                 THEN Ordinal(y, m, d) ELSE -1
        ELSE -1

DateParses(s) == ParseDate(s) # -1

\* int(s): <<TRUE, value>> or <<FALSE, 0>> for ValueError
ParseInt(s) ==
    LET t == Strip(s)
        signed == t # "" /\ Head(t) \in {"+", "-"}
        digits == IF signed THEN Tail(t) ELSE t
    IN  IF AllDigits(digits)
        THEN <<TRUE, IF signed /\ Head(t) = "-" THEN 0 - DigitsValue(digits) ELSE DigitsValue(digits)>>
        ELSE <<FALSE, 0>>

\* minutes after midnight of the time part of get_sort_key
SortTimeMinutes(departure_time) ==
    IF departure_time # "" /\ departure_time # "N/A"
    THEN LET time_parts == Split(departure_time, ":")
         IN  IF Len(time_parts) = 2
             THEN LET hour == ParseInt(time_parts[1])
                      minute == ParseInt(time_parts[2])
                  IN  IF hour[1] /\ minute[1] /\ hour[2] \in 0..23 /\ minute[2] \in 0..59
                      THEN hour[2] * 60 + minute[2]
                      ELSE 0
             ELSE 0
    ELSE 0


SentinelKey == Ordinal(1900, 1, 1) * 1440

\* a key that leaves the departure time out
DateOnlyKey(entry) ==
    IF DateParses(entry.departure_date)
    THEN ParseDate(entry.departure_date) * 1440
    ELSE SentinelKey

\* get_sort_key(entry): minutes since 0001-01-01 00:00 of the combined datetime
get_sort_key(entry) ==
    IF DateParses(entry.departure_date)
    THEN ParseDate(entry.departure_date) * 1440 + SortTimeMinutes(entry.departure_time)
    ELSE SentinelKey

(***************************************************************************)
(* Records.  A leg is a dict with the ten columns of the input table; an   *)
(* AI candidate is a dict that may lack columns and may carry others.      *)
(***************************************************************************)
Get(entry, key, default) == IF key \in DOMAIN entry THEN entry[key] ELSE default

Leg(dco, dci, dda, dti, aco, aci, ada, ati, src) ==
    [departure_country |-> dco, departure_city |-> dci, departure_date |-> dda,
     departure_time |-> dti, arrival_country |-> aco, arrival_city |-> aci,
     arrival_date |-> ada, arrival_time |-> ati, notes |-> "", source_file |-> src]

\* rows the input table may hold (csv.DictReader rows, every column present)
RowCatalogue ==
    { Leg("", "YORK - UK", "2023-02-06", "7:5", "usa", "New York", "2023-02-07", "", "Original"),
      Leg("US", "New York, NY", "Unknown", "N/A", "uk", "york", "2023-01-10", "", ""),
      Leg("US", "New York", "2023-02-06", "24:00", "GB", "York (GB)", "2023-02-07", "04:15", "scan.eml") }

\* candidate objects the extraction service may return
CandidateCatalogue ==
    { [departure_country |-> "UK", departure_city |-> "York (YRK)", departure_date |-> "2023-02-07",
       departure_time |-> "null", arrival_country |-> "usa", arrival_city |-> "New York (JFK)",
       arrival_date |-> "2023-02-07", arrival_time |-> "Unknown", notes |-> "", source_file |-> "mail/a.eml",
       confidence |-> "0.9"],
      [departure_city |-> "York", departure_date |-> "2023-01-12", arrival_city |-> "York",
       arrival_country |-> " "],
      [departure_country |-> "GB", departure_city |-> "York", departure_date |-> "Unknown",
       arrival_country |-> "US", arrival_city |-> "New York", source_file |-> ""] }

\* the documents of the email directory, in glob order: whether the keyword
\* filter keeps them
EmailCorpora == {<<>>, <<"other">>, <<"travel", "other">>}

SeqsUpTo(S, n) == UNION {[1..k -> S] : k \in 0..n}

Range(f) == {f[i] : i \in DOMAIN f}

(***************************************************************************)
(* sort_travel_data_chronologically: sorted(travel_data, key=get_sort_key) *)
(* is a stable sort.                                                       *)
(***************************************************************************)
RECURSIVE InsertSorted(_, _)
InsertSorted(sorted_data, entry) ==
    IF sorted_data = <<>> THEN <<entry>>
    ELSE IF get_sort_key(sorted_data[Len(sorted_data)]) <= get_sort_key(entry)
         THEN Append(sorted_data, entry)
         ELSE Append(InsertSorted(SubSeq(sorted_data, 1, Len(sorted_data) - 1), entry),
                     sorted_data[Len(sorted_data)])

RECURSIVE SortedPrefix(_, _)
SortedPrefix(travel, n) ==
    IF n = 0 THEN <<>> ELSE InsertSorted(SortedPrefix(travel, n - 1), travel[n])

sort_travel_data_chronologically(travel) == SortedPrefix(travel, Len(travel))

load_travel_data(rows) ==
    sort_travel_data_chronologically(
        [i \in 1..Len(rows) |-> normalize_travel_entry_country_codes(rows[i])])

(***************************************************************************)
(* identify_gaps                                                           *)
(***************************************************************************)
DaysBetweenReversed(date1_str, date2_str) ==
    IF DateParses(date1_str) /\ DateParses(date2_str)
    THEN ParseDate(date1_str) - ParseDate(date2_str)
    ELSE 0

calculate_days_between(date1_str, date2_str) ==
    IF DateParses(date1_str) /\ DateParses(date2_str)
    THEN ParseDate(date2_str) - ParseDate(date1_str)
    ELSE 0

\* a junction whose cities differ or whose countries differ
CityOrCountryMismatch(current, next_entry) ==
    \/ Lower(extract_city_name(current.arrival_city))
           # Lower(extract_city_name(next_entry.departure_city))
    \/ Lower(current.arrival_country) # Lower(next_entry.departure_country)

\* "if current_arrival.lower() != next_departure.lower()"
CityMismatch(current, next_entry) ==
    Lower(extract_city_name(current.arrival_city))
        # Lower(extract_city_name(next_entry.departure_city))

ExactCountryMismatch(current, next_entry) ==
    current.arrival_country # next_entry.departure_country

\* "is_country_gap = current_country.lower() != next_country.lower()"
CountryMismatch(current, next_entry) ==
    Lower(current.arrival_country) # Lower(next_entry.departure_country)

\* the loop of identify_gaps over i = 0 .. n-1 (0-based, as gap_index is)
RECURSIVE GapsUpTo(_, _)
GapsUpTo(travel, n) ==
    IF n <= 0 THEN <<>>
    ELSE LET found == GapsUpTo(travel, n - 1)
             i == n - 1
             current == travel[i + 1]
             next_entry == travel[i + 2]
             current_arrival == extract_city_name(current.arrival_city)
             next_departure == extract_city_name(next_entry.departure_city)
             is_country_gap == CountryMismatch(current, next_entry)
         IN  IF CityMismatch(current, next_entry)
             THEN Append(found,
                    [gap_index |-> i,
                     gap_number |-> Len(found) + 1,
                     current_arrival |-> current_arrival,
                     current_arrival_country |-> current.arrival_country,
                     current_arrival_date |-> current.arrival_date,
                     next_departure |-> next_departure,
                     next_departure_country |-> next_entry.departure_country,
                     next_departure_date |-> next_entry.departure_date,
                     days_between |-> calculate_days_between(current.arrival_date,
                                                             next_entry.departure_date),
                     gap_type |-> IF is_country_gap THEN "COUNTRY" ELSE "CITY",
                     is_country_gap |-> is_country_gap])
             ELSE found

identify_gaps(travel) == GapsUpTo(travel, Len(travel) - 1)

(***************************************************************************)
(* Gap matcher: entry_connects_gap, find_entries_for_gap,                  *)
(* match_entries_to_gaps.                                                  *)
(***************************************************************************)
\* a matcher that only asks whether the gap's city occurs in the candidate's
OneWayConnects(entry, gap) ==
    /\ Contains(Lower(gap.current_arrival), Lower(Get(entry, "departure_city", "")))
    /\ Contains(Lower(gap.next_departure), Lower(Get(entry, "arrival_city", "")))

entry_connects_gap(entry, gap) ==
    LET current_arrival == Lower(gap.current_arrival)
        next_departure == Lower(gap.next_departure)
        entry_departure == Lower(Get(entry, "departure_city", ""))
        entry_arrival == Lower(Get(entry, "arrival_city", ""))
    IN  /\ (Contains(current_arrival, entry_departure) \/ Contains(entry_departure, current_arrival))
        /\ (Contains(next_departure, entry_arrival) \/ Contains(entry_arrival, next_departure))

\* the body of the loop of find_entries_for_gap for one entry: TRUE when appended
EntryMatchesGap(entry, gap) ==
    /\ "departure_date" \in DOMAIN entry
    /\ DateParses(entry.departure_date)
    /\ ParseDate(gap.current_arrival_date) - 7 <= ParseDate(entry.departure_date)
    /\ ParseDate(entry.departure_date) <= ParseDate(gap.next_departure_date) + 7
    /\ entry_connects_gap(entry, gap)

find_entries_for_gap(all_entries, gap) ==
    IF ~(DateParses(gap.current_arrival_date) /\ DateParses(gap.next_departure_date))
    THEN <<>>
    ELSE SelectSeq(all_entries, LAMBDA entry : EntryMatchesGap(entry, gap))

RECURSIVE Flatten(_)
Flatten(lists) == IF lists = <<>> THEN <<>> ELSE Head(lists) \o Flatten(Tail(lists))

\* matching_entries of every iteration of the loop of match_entries_to_gaps
MatchesPerGap(all_entries, gap_list) ==
    [g \in 1..Len(gap_list) |-> find_entries_for_gap(all_entries, gap_list[g])]

match_entries_to_gaps(all_entries, gap_list) == Flatten(MatchesPerGap(all_entries, gap_list))

(***************************************************************************)
(* clean_travel_entry                                                      *)
(***************************************************************************)
RECURSIVE Basename(_)
Basename(path) ==
    LET p == Find("/", path, 1) IN IF p = 0 THEN path ELSE Basename(SubSeq(path, p + 1, Len(path)))

BlankIfUnknown(value) == IF value \in {"Unknown", "null", ""} THEN "" ELSE value

clean_travel_entry(entry, source_file) ==
    normalize_travel_entry_country_codes(
        [departure_country |-> Get(entry, "departure_country", "Unknown"),
         departure_city |-> Get(entry, "departure_city", "Unknown"),
         departure_date |-> BlankIfUnknown(Get(entry, "departure_date", "")),
         departure_time |-> BlankIfUnknown(Get(entry, "departure_time", "Unknown")),
         arrival_country |-> Get(entry, "arrival_country", "Unknown"),
         arrival_city |-> Get(entry, "arrival_city", "Unknown"),
         arrival_date |-> BlankIfUnknown(Get(entry, "arrival_date", "")),
         arrival_time |-> BlankIfUnknown(Get(entry, "arrival_time", "Unknown")),
         notes |-> Get(entry, "notes", "Unknown"),
         source_file |-> IF source_file # "" THEN Basename(source_file) ELSE "Unknown"])

\* the cleaning loop of run_async
CleanAll(raw) ==
    [i \in 1..Len(raw) |-> clean_travel_entry(raw[i], Get(raw[i], "source_file", "Unknown"))]

(***************************************************************************)
(* Itinerary merger: generate_complete_table.  Every element of the result *)
(* carries, next to the appended dict, the list it was taken from and its  *)
(* 0-based index there (i of travel_data, j of found_entries).             *)
(***************************************************************************)
ContinuesArrival(found_entry, entry, next_entry) ==
    LET current_arrival == extract_city_name(entry.arrival_city)
        found_departure == extract_city_name(Get(found_entry, "departure_city", ""))
    IN  Lower(found_departure) = Lower(current_arrival)

\* the test of the inner loop: found_entry fills the junction entry -> next_entry
FillsJunction(found_entry, entry, next_entry) ==
    LET current_arrival == extract_city_name(entry.arrival_city)
        next_departure == extract_city_name(next_entry.departure_city)
        found_departure == extract_city_name(Get(found_entry, "departure_city", ""))
        found_arrival == extract_city_name(Get(found_entry, "arrival_city", ""))
    IN  /\ Lower(found_departure) = Lower(current_arrival)
        /\ Lower(found_arrival) = Lower(next_departure)

MinOf(S) == CHOOSE x \in S : \A y \in S : x <= y

\* a merger that does not look at used_entries
AlwaysAvailable(j, used_entries) == TRUE

\* "if j in used_entries: continue"
Available(j, used_entries) == j \notin used_entries

TagIfUntagged(entry) ==
    IF entry.source_file = "" THEN [entry EXCEPT !.source_file = "Original"] ELSE entry

\* entry_with_source = entry.copy(); entry_with_source['source_file'] = 'Original'
entry_with_source(entry) == [entry EXCEPT !.source_file = "Original"]

\* iterations i, i+1, ... of the outer loop (i 1-based), used_entries as a set of 1-based j
RECURSIVE MergeFrom(_, _, _, _)
MergeFrom(travel, found, i, used_entries) ==
    IF i > Len(travel) THEN <<>>
    ELSE LET original == [entry |-> entry_with_source(travel[i]), origin |-> "travel_data",
                          index |-> i - 1]
             fillers == IF i < Len(travel)
                        THEN {j \in 1..Len(found) :
                                 /\ Available(j, used_entries)
                                 /\ FillsJunction(found[j], travel[i], travel[i + 1])}
                        ELSE {}
         IN  IF fillers = {}
             THEN <<original>> \o MergeFrom(travel, found, i + 1, used_entries)
             ELSE LET j == MinOf(fillers)
                  IN  <<original, [entry |-> found[j], origin |-> "found_entries", index |-> j - 1]>>
                          \o MergeFrom(travel, found, i + 1, used_entries \cup {j})

generate_complete_table(travel, found) == MergeFrom(travel, found, 1, {})

(***************************************************************************)
(* check_gaps_filled: the counts it returns.                               *)
(***************************************************************************)
\* a scan of the whole sequence
WholeRange(complete, gap) == 0..(Len(complete) - 1)

\* a scan of the one position behind the gap's own index
ScanNextPosition(complete, gap) == {gap.gap_index + 1} \cap (0..(Len(complete) - 1))

\* range(gap_index + 1, len(complete_data)), 0-based
ScanRange(complete, gap) == (gap.gap_index + 1)..(Len(complete) - 1)

\* found_connection for one gap
FoundConnection(complete, gap) ==
    \E i \in ScanRange(complete, gap) :
        LET entry == complete[i + 1]
            entry_departure == extract_city_name(Get(entry, "departure_city", ""))
            entry_arrival == extract_city_name(Get(entry, "arrival_city", ""))
        IN  /\ Lower(entry_departure) = Lower(gap.current_arrival)
            /\ Lower(entry_arrival) = Lower(gap.next_departure)

RECURSIVE CountFilled(_, _, _)
CountFilled(complete, gap_list, n) ==
    IF n = 0 THEN <<0, 0>>
    ELSE LET before == CountFilled(complete, gap_list, n - 1)
         IN  IF FoundConnection(complete, gap_list[n])
             THEN <<before[1] + 1, before[2]>>
             ELSE <<before[1], before[2] + 1>>

\* <<gaps_filled, gaps_remaining>>
check_gaps_filled(complete, gap_list) == CountFilled(complete, gap_list, Len(gap_list))

(***************************************************************************)
(* Connection analysis of the parser class: extract_country, extract_city, *)
(* add_connection_analysis.                                                *)
(***************************************************************************)
MatchYes == "Y"      \* the check mark written for a match
MatchNo == "N"       \* the cross written for a mismatch
NotApplicable == "N/A"

\* re.search(r'\(([A-Z]{2})\)', location)
CountryCodePositions(location) ==
    {i \in 1..(Len(location) - 3) :
        /\ CharAt(location, i) = "("
        /\ IsUpperChar(CharAt(location, i + 1))
        /\ IsUpperChar(CharAt(location, i + 2))
        /\ CharAt(location, i + 3) = ")"}

extract_country(location) ==
    IF location = "" \/ location = "Unknown" THEN ""
    ELSE IF CountryCodePositions(location) # {}
         THEN LET i == MinOf(CountryCodePositions(location)) IN SubSeq(location, i + 1, i + 2)
         ELSE location

\* re.sub(r'\s*\([A-Z]{2}\)', '', location)
RECURSIVE RemoveCountryCodes(_)
RemoveCountryCodes(s) ==
    IF s = "" THEN ""
    ELSE LET rest == SubSeq(s, SpaceRun(s) + 1, Len(s))
         IN  IF 1 \in CountryCodePositions(rest)
             THEN RemoveCountryCodes(SubSeq(rest, 5, Len(rest)))
             ELSE Head(s) \o RemoveCountryCodes(Tail(s))

extract_city(location) ==
    IF location = "" \/ location = "Unknown" THEN ""
    ELSE Strip(RemoveCountryCodes(location))

add_connection_analysis(data) ==
    IF Len(data) < 2 THEN data
    ELSE [i \in 1..Len(data) |->
            IF i < Len(data)
            THEN LET current_country == extract_country(Get(data[i], "arrival_city", ""))
                     current_city == extract_city(Get(data[i], "arrival_city", ""))
                     next_country == extract_country(Get(data[i + 1], "departure_city", ""))
                     next_city == extract_city(Get(data[i + 1], "departure_city", ""))
                     country_match == /\ current_country # "" /\ next_country # ""
                                      /\ Lower(current_country) = Lower(next_country)
                     city_match == /\ current_city # "" /\ next_city # ""
                                   /\ Lower(current_city) = Lower(next_city)
                 IN  [next_country_match |-> IF country_match THEN MatchYes ELSE MatchNo,
                      next_city_match |-> IF city_match THEN MatchYes ELSE MatchNo,
                      next_country |-> IF next_country # "" THEN next_country ELSE "Unknown",
                      next_city |-> IF next_city # "" THEN next_city ELSE "Unknown"] @@ data[i]
            ELSE [next_country_match |-> NotApplicable, next_city_match |-> NotApplicable,
                  next_country |-> NotApplicable, next_city |-> NotApplicable] @@ data[i]]

(***************************************************************************)
(* add_connection_analysis.py: the function add_connection_analysis of the *)
(* standalone script, which compares the country and city fields directly. *)
(***************************************************************************)
StandaloneExactCase(data) ==
    IF Len(data) < 2 THEN data
    ELSE [i \in 1..Len(data) |->
            IF i < Len(data)
            THEN LET current_arrival_country == Get(data[i], "arrival_country", "")
                     current_arrival_city == Get(data[i], "arrival_city", "")
                     next_departure_country == Get(data[i + 1], "departure_country", "")
                     next_departure_city == Get(data[i + 1], "departure_city", "")
                     country_match == /\ current_arrival_country # "" /\ next_departure_country # ""
                                      /\ current_arrival_country = next_departure_country
                     city_match == /\ current_arrival_city # "" /\ next_departure_city # ""
                                   /\ current_arrival_city = next_departure_city
                 IN  [next_country_match |-> IF country_match THEN MatchYes ELSE MatchNo,
                      next_city_match |-> IF city_match THEN MatchYes ELSE MatchNo] @@ data[i]
            ELSE [next_country_match |-> NotApplicable, next_city_match |-> NotApplicable]
                     @@ data[i]]

standalone_add_connection_analysis(data) ==
    IF Len(data) < 2 THEN data
    ELSE [i \in 1..Len(data) |->
            IF i < Len(data)
            THEN LET current_arrival_country == Get(data[i], "arrival_country", "")
                     current_arrival_city == Get(data[i], "arrival_city", "")
                     next_departure_country == Get(data[i + 1], "departure_country", "")
                     next_departure_city == Get(data[i + 1], "departure_city", "")
                     country_match == /\ current_arrival_country # "" /\ next_departure_country # ""
                                      /\ Lower(current_arrival_country) = Lower(next_departure_country)
                     city_match == /\ current_arrival_city # "" /\ next_departure_city # ""
                                   /\ Lower(current_arrival_city) = Lower(next_departure_city)
                 IN  [next_country_match |-> IF country_match THEN MatchYes ELSE MatchNo,
                      next_city_match |-> IF city_match THEN MatchYes ELSE MatchNo] @@ data[i]
            ELSE [next_country_match |-> NotApplicable, next_city_match |-> NotApplicable]
                     @@ data[i]]

(***************************************************************************)
(* save_complete_table: the rows csv.DictWriter writes.                    *)
(***************************************************************************)
fieldnames ==
    {"departure_country", "departure_city", "departure_date", "departure_time",
     "arrival_country", "arrival_city", "arrival_date", "arrival_time", "notes",
     "source_file", "next_country_match", "next_city_match", "next_country", "next_city"}

\* DictWriter fills a column the dict lacks with the empty string
WrittenRow(entry) == [k \in fieldnames |-> Get(entry, k, "")]

save_complete_table(complete) ==
    LET sorted_data == sort_travel_data_chronologically(complete)
    IN  [i \in 1..Len(sorted_data) |-> WrittenRow(sorted_data[i])]

(***************************************************************************)
(* detect_incongruent_events                                               *)
(***************************************************************************)
DepartureKey(entry) == entry.departure_city \o "_" \o entry.departure_date

\* keys of city_departures in insertion order
RECURSIVE KeysInOrder(_, _)
KeysInOrder(travel, n) ==
    IF n = 0 THEN <<>>
    ELSE LET before == KeysInOrder(travel, n - 1)
         IN  IF DepartureKey(travel[n]) \in Range(before) THEN before
             ELSE Append(before, DepartureKey(travel[n]))

MultipleDepartures(travel) ==
    LET keys == KeysInOrder(travel, Len(travel))
        EntriesOf(key) == SelectSeq(travel, LAMBDA e : DepartureKey(e) = key)
        crowded == SelectSeq(keys, LAMBDA key : Len(EntriesOf(key)) > 1)
    IN  [k \in 1..Len(crowded) |->
            LET p == Find("_", crowded[k], 1)
            IN  [type |-> "multiple_departures",
                 city |-> SubSeq(crowded[k], 1, p - 1),
                 date |-> SubSeq(crowded[k], p + 1, Len(crowded[k])),
                 count |-> Len(EntriesOf(crowded[k])),
                 entries |-> EntriesOf(crowded[k])]]

\* strptime(s, '%H:%M'): minutes after midnight, or -1 for ValueError
ParseTime(s) ==
    LET parts == Split(s, ":")
    IN  IF /\ Len(parts) = 2
           /\ AllDigits(parts[1]) /\ Len(parts[1]) <= 2 /\ DigitsValue(parts[1]) <= 23
           /\ AllDigits(parts[2]) /\ Len(parts[2]) <= 2 /\ DigitsValue(parts[2]) <= 59
        THEN DigitsValue(parts[1]) * 60 + DigitsValue(parts[2])
        ELSE -1

OverlapsUpToTwoHours(entry1, entry2) ==
    /\ entry1.departure_city = entry2.departure_city
    /\ entry1.departure_date = entry2.departure_date
    /\ entry1.departure_time # "" /\ entry2.departure_time # ""
    /\ ParseTime(entry1.departure_time) # -1 /\ ParseTime(entry2.departure_time) # -1
    /\ LET diff == ParseTime(entry1.departure_time) - ParseTime(entry2.departure_time)
       IN  (IF diff < 0 THEN 0 - diff ELSE diff) <= 120

Overlaps(entry1, entry2) ==
    /\ entry1.departure_city = entry2.departure_city
    /\ entry1.departure_date = entry2.departure_date
    /\ entry1.departure_time # "" /\ entry2.departure_time # ""
    /\ ParseTime(entry1.departure_time) # -1 /\ ParseTime(entry2.departure_time) # -1
    /\ LET diff == ParseTime(entry1.departure_time) - ParseTime(entry2.departure_time)
       IN  (IF diff < 0 THEN 0 - diff ELSE diff) < 120

\* the pairs (i, j), i < j, in the order of the nested loops
RECURSIVE PairsFrom(_, _, _)
PairsFrom(n, i, j) ==
    IF i >= n THEN <<>>
    ELSE IF j > n THEN PairsFrom(n, i + 1, i + 2)
    ELSE <<(<<i, j>>)>> \o PairsFrom(n, i, j + 1)

OverlappingTimes(travel) ==
    LET pairs == SelectSeq(PairsFrom(Len(travel), 1, 2),
                           LAMBDA p : Overlaps(travel[p[1]], travel[p[2]]))
    IN  [k \in 1..Len(pairs) |->
            [type |-> "overlapping_times",
             city |-> travel[pairs[k][1]].departure_city,
             date |-> travel[pairs[k][1]].departure_date,
             time1 |-> travel[pairs[k][1]].departure_time,
             time2 |-> travel[pairs[k][2]].departure_time,
             entries |-> <<travel[pairs[k][1]], travel[pairs[k][2]]>>]]

detect_incongruent_events(travel) == MultipleDepartures(travel) \o OverlappingTimes(travel)

(***************************************************************************)
(* search_travel_emails_async: the batches of the filtering loop.          *)
(***************************************************************************)
\* the default of the parameter batch_size of __init__
batch_size == 50
RelevantLimit == 1000

None == "None"

\* parse_email_direct_async: a document is "travel" when it parses and a keyword
\* occurs in its subject, sender or content, "other" when it parses and none
\* does, "broken" when reading or parsing it raises, which returns None
parse_email_direct(file) == IF file = "broken" THEN None ELSE file

\* any(keyword in subject ...) or any(keyword in sender ...) or any(keyword in content ...)
MatchesKeywords(result) == result = "travel"

\* the loop over results of process_email_batch
KeepRelevant(results) ==
    SelectSeq(results, LAMBDA result : result # None /\ MatchesKeywords(result))

\* process_email_batch: the documents of the batch the keyword filter keeps
process_email_batch(batch_files) ==
    KeepRelevant([k \in 1..Len(batch_files) |-> parse_email_direct(batch_files[k])])

\* the loop "for i in range(0, len(email_files), batch_size)" from 1-based offset i
RECURSIVE SearchFrom(_, _, _, _)
SearchFrom(files, i, kept, size) ==
    IF i > Len(files) THEN kept
    ELSE LET last == IF i + size - 1 < Len(files) THEN i + size - 1 ELSE Len(files)
             now == kept \o process_email_batch(SubSeq(files, i, last))
         IN  IF Len(now) >= RelevantLimit THEN now
             ELSE SearchFrom(files, i + size, now, size)

search_travel_emails(files) == SearchFrom(files, 1, <<>>, batch_size)

(***************************************************************************)
(* json.loads on the texts of the model: JSON without string escapes and   *)
(* without fractions or exponents.  A parsed value is a record with one    *)
(* field named after its Python type: [list |-> <<...>>], [dict |-> f],    *)
(* [str |-> s], [int |-> n], [bool |-> b], [none |-> TRUE].                *)
(***************************************************************************)
JsonWhitespace == {" ", "\t", "\n", "\r"}

\* s[i - 1 : i - 1 + n] of Python: the at most n characters of s from position i
Peek(s, i, n) ==
    IF i > Len(s) THEN ""
    ELSE SubSeq(s, i, IF i + n - 1 < Len(s) THEN i + n - 1 ELSE Len(s))

\* position of the first character at or after i that is not JSON whitespace
RECURSIVE SkipWhitespace(_, _)
SkipWhitespace(s, i) ==
    IF i <= Len(s) /\ Peek(s, i, 1) \in JsonWhitespace THEN SkipWhitespace(s, i + 1) ELSE i

\* a failed scan
JsonError == [ok |-> FALSE]

JsonOk(v, next) == [ok |-> TRUE, value |-> v, next |-> next]

\* the string literal whose opening quote is at i
ScanString(s, i) ==
    LET close == Find("\"", s, i + 1)
        body == SubSeq(s, i + 1, close - 1)
    IN  IF close = 0 \/ \E k \in 1..Len(body) : CharAt(body, k) \in {"\\", "\n", "\t", "\r"}
        THEN JsonError
        ELSE JsonOk([str |-> SubSeq(s, i + 1, close - 1)], close + 1)

\* end of the run of digits that starts at i
RECURSIVE DigitsEnd(_, _)
DigitsEnd(s, i) == IF i <= Len(s) /\ IsDigit(Peek(s, i, 1)) THEN DigitsEnd(s, i + 1) ELSE i

\* the integer literal that starts at i: -?(0|[1-9][0-9]*)
ScanNumber(s, i) ==
    LET first == IF Peek(s, i, 1) = "-" THEN i + 1 ELSE i
        stop == IF Peek(s, first, 1) = "0" THEN first + 1 ELSE DigitsEnd(s, first)
        magnitude == DigitsValue(SubSeq(s, first, stop - 1))
    IN  IF stop = first THEN JsonError
        ELSE JsonOk([int |-> IF first = i THEN magnitude ELSE 0 - magnitude], stop)

RECURSIVE ScanValue(_, _), ScanElements(_, _, _), ScanMembers(_, _, _)

\* the value that starts at i, leading whitespace skipped
ScanValue(s, i) ==
    LET p == SkipWhitespace(s, i)
        c == Peek(s, p, 1)
    IN  CASE p > Len(s) -> JsonError
          [] c = "[" -> IF Peek(s, SkipWhitespace(s, p + 1), 1) = "]"
                        THEN JsonOk([list |-> <<>>], SkipWhitespace(s, p + 1) + 1)
                        ELSE ScanElements(s, p + 1, <<>>)
          [] c = "{" -> IF Peek(s, SkipWhitespace(s, p + 1), 1) = "}"
                        THEN JsonOk([dict |-> <<>>], SkipWhitespace(s, p + 1) + 1)
                        ELSE ScanMembers(s, p + 1, <<>>)
          [] c = "\"" -> ScanString(s, p)
          [] c = "-" \/ IsDigit(c) -> ScanNumber(s, p)
          [] Peek(s, p, 4) = "true" -> JsonOk([bool |-> TRUE], p + 4)
          [] Peek(s, p, 5) = "false" -> JsonOk([bool |-> FALSE], p + 5)
          [] Peek(s, p, 4) = "null" -> JsonOk([none |-> TRUE], p + 4)
          [] OTHER -> JsonError

\* the elements of an array from i on, after those in done
ScanElements(s, i, done) ==
    LET element == ScanValue(s, i)
        p == SkipWhitespace(s, element.next)
    IN  IF ~element.ok THEN JsonError
        ELSE CASE Peek(s, p, 1) = "," -> ScanElements(s, p + 1, Append(done, element.value))
               [] Peek(s, p, 1) = "]" -> JsonOk([list |-> Append(done, element.value)], p + 1)
               [] OTHER -> JsonError

\* the members of an object from i on, after those in done (pairs <<key, value>>)
ScanMembers(s, i, done) ==
    LET k == SkipWhitespace(s, i)
        key == IF Peek(s, k, 1) = "\"" THEN ScanString(s, k) ELSE JsonError
        colon == SkipWhitespace(s, key.next)
        member == IF key.ok /\ Peek(s, colon, 1) = ":" THEN ScanValue(s, colon + 1) ELSE JsonError
        p == SkipWhitespace(s, member.next)
        now == Append(done, <<key.value.str, member.value>>)
    IN  IF ~member.ok THEN JsonError
        ELSE CASE Peek(s, p, 1) = "," -> ScanMembers(s, p + 1, now)
               [] Peek(s, p, 1) = "}" -> JsonOk([dict |-> now], p + 1)
               [] OTHER -> JsonError

\* json.loads(s): the value, or JsonError where json.loads raises
json_loads(s) ==
    LET v == ScanValue(s, 1)
    IN  IF v.ok /\ SkipWhitespace(s, v.next) = Len(s) + 1 THEN v ELSE JsonError

(***************************************************************************)
(* Candidate extraction: call_openai_with_retry and the response parsing   *)
(* of analyze_email_batch_with_ai_async.                                   *)
(***************************************************************************)
\* the default of the parameter max_retries of call_openai_with_retry
max_retries == 3

\* "if attempt < max_retries": a retryable error is followed by another attempt
RetryAfterLastAttempt(n) == n <= max_retries
MayRetry(n) == n < max_retries

\* batch_size of analyze_all_emails_with_ai_async
analysis_batch_size == 8

\* the test on str(e).lower() that sends call_openai_with_retry into a retry
IsRetryable(message) ==
    LET error_msg == Lower(message)
    IN  \/ Contains("rate_limit", error_msg)
        \/ Contains("context_length", error_msg)
        \/ Contains("tokens per min", error_msg)

\* what call_openai_with_retry returns when it gives up
NoResponse == [none |-> TRUE]

\* a response object: response.choices[0].message.content
Response(content) == [content |-> content]

\* str.rfind(sub) with 1-based positions, 0 when absent
RFind(sub, s) ==
    LET hits == {i \in 1..(Len(s) - Len(sub) + 1) : SubSeq(s, i, i + Len(sub) - 1) = sub}
    IN  IF hits = {} THEN 0 ELSE CHOOSE i \in hits : \A j \in hits : i >= j

ParseWholeContent(response) ==
    IF "content" \notin DOMAIN response THEN <<>>
    ELSE LET entries == json_loads(Strip(response.content))
         IN  IF entries.ok /\ "list" \in DOMAIN entries.value THEN entries.value.list ELSE <<>>

\* the candidates analyze_email_batch_with_ai_async returns for a response: the
\* text from the first "[" to the last "]" when json.loads makes a list of it,
\* and the empty list when the response has no content (AttributeError), the
\* text has no such span or json.loads raises
ParseResponse(response) ==
    IF "content" \notin DOMAIN response THEN <<>>
    ELSE LET content == Strip(response.content)
             json_start == Find("[", content, 1)
             json_end == RFind("]", content)
             entries == json_loads(SubSeq(content, json_start, json_end))
         IN  IF json_start # 0 /\ json_end >= json_start /\ entries.ok
                /\ "list" \in DOMAIN entries.value
             THEN entries.value.list
             ELSE <<>>

\* the texts the extraction service answers with
ResponseCatalogue ==
    { "Found one leg:\n[{\"departure_city\": \"York\", \"arrival_city\": \"New York\"}]\nDone.",
      "[]",
      "No travel information found.",
      "Legs: [York -> Leeds]",
      "[{\"departure_city\": \"York\", ",
      "{\"entries\": [{\"departure_city\": \"Leeds\"}]}",
      "{\"error\": \"no travel\"}",
      "[{\"departure_city\": \"York\"}]\nSources: [1]" }

\* the messages of the exceptions the extraction service raises
ErrorCatalogue ==
    { "Rate limit reached for gpt-4o on tokens per min (TPM)",
      "This model's maximum context length is 128000 tokens (context_length_exceeded)",
      "Connection reset by peer" }

\* the messages of the catalogue on which call_openai_with_retry retries
RetryableErrors == {message \in ErrorCatalogue : IsRetryable(message)}

(***************************************************************************)
(* State of one run of run_async.                                          *)
(***************************************************************************)
VARIABLES
    csv_rows,            \* rows of the input table, in file order
    email_files,         \* documents of the corpus, in glob order
    travel_data,         \* self.travel_data
    gaps,                \* self.gaps
    travel_emails,       \* result of search_travel_emails_async
    all_travel_entries,  \* candidates returned by analyze_all_emails_with_ai_async
    matching_entries,    \* per gap, the list find_entries_for_gap returned
    raw_entries,         \* result of extract_travel_info_with_ai_async
    found_entries,       \* self.found_entries
    incongruent_events,  \* result of detect_incongruent_events
    merged,              \* result of generate_complete_table with the origin of every element
    complete_data,       \* the local complete_data of run_async
    gaps_filled,         \* first component of the result of check_gaps_filled
    gaps_remaining,      \* second component
    written,             \* rows of the output file
    report,              \* the counts of the final RESULTS block
    error,               \* the exception that ended the run
    pc,                  \* position of run_async
    batch_offset,        \* i of the batch loop of analyze_all_emails_with_ai_async
    attempt,             \* attempt of the loop of call_openai_with_retry
    api_calls,           \* outcome of every call of the service for the current batch
    response,            \* what call_openai_with_retry returned for the current batch
    batches,             \* per batch: its emails, what call_openai_with_retry returned and the
                         \* list analyze_email_batch_with_ai_async returned
    max_workers,         \* self.max_workers
    self_batch_size,     \* self.batch_size
    scan_offset,         \* i of the batch loop of search_travel_emails_async
    semaphore,           \* free permits of asyncio.Semaphore(self.max_workers)
    in_flight,           \* documents whose parse task has started and not ended
    results,             \* results of the parse tasks of the batch that have ended
    processed_count,     \* processed_count of search_travel_emails_async
    data_with_connections \* result of add_connection_analysis of add_connection_analysis.py

\* the locals of analyze_all_emails_with_ai_async and of the calls it makes
extraction_vars == <<batch_offset, attempt, api_calls, response, batches>>

\* the settings and the locals of search_travel_emails_async
search_vars ==
    <<max_workers, self_batch_size, scan_offset, semaphore, in_flight, results, processed_count>>

\* the locals of the stages run_async performs in one step
detail_vars == <<extraction_vars, search_vars, data_with_connections>>

vars == <<csv_rows, email_files, travel_data, gaps, travel_emails, all_travel_entries,
          matching_entries, raw_entries, found_entries, incongruent_events, merged,
          complete_data, gaps_filled, gaps_remaining, written, report, error, pc,
          detail_vars>>

\* analyze_all_emails_with_ai_async is not running
ExtractionIdle ==
    /\ batch_offset = 0
    /\ attempt = 0
    /\ api_calls = <<>>
    /\ response = NoResponse
    /\ batches = <<>>

\* search_travel_emails_async is not running; the settings have the value the
\* tests construct the parser with and the default
SearchIdle ==
    /\ max_workers = 4
    /\ self_batch_size = batch_size
    /\ scan_offset = 0
    /\ semaphore = max_workers
    /\ in_flight = <<>>
    /\ results = <<>>
    /\ processed_count = 0

Init ==
    /\ csv_rows \in SeqsUpTo(RowCatalogue, MaxLegs)
    /\ email_files \in EmailCorpora
    /\ travel_data = <<>>
    /\ gaps = <<>>
    /\ travel_emails = <<>>
    /\ all_travel_entries = <<>>
    /\ matching_entries = <<>>
    /\ raw_entries = <<>>
    /\ found_entries = <<>>
    /\ incongruent_events = <<>>
    /\ merged = <<>>
    /\ complete_data = <<>>
    /\ gaps_filled = None
    /\ gaps_remaining = None
    /\ written = None
    /\ report = None
    /\ error = None
    /\ pc = "load_travel_data"
    /\ ExtractionIdle
    /\ SearchIdle
    /\ data_with_connections = <<>>

\* self.load_travel_data()
LoadTravelData ==
    /\ pc = "load_travel_data"
    /\ travel_data' = load_travel_data(csv_rows)
    /\ pc' = "identify_gaps"
    /\ UNCHANGED <<csv_rows, email_files, gaps, travel_emails, all_travel_entries,
                   matching_entries, raw_entries, found_entries, incongruent_events, merged,
                   complete_data, gaps_filled, gaps_remaining, written, report, error>>
    /\ UNCHANGED detail_vars

\* self.identify_gaps()
IdentifyGaps ==
    /\ pc = "identify_gaps"
    /\ gaps' = identify_gaps(travel_data)
    /\ pc' = "search_travel_emails"
    /\ UNCHANGED <<csv_rows, email_files, travel_data, travel_emails, all_travel_entries,
                   matching_entries, raw_entries, found_entries, incongruent_events, merged,
                   complete_data, gaps_filled, gaps_remaining, written, report, error>>
    /\ UNCHANGED detail_vars

\* travel_emails = await self.search_travel_emails_async(); the filter-efficiency
\* line divides by processed_count
SearchTravelEmails ==
    /\ pc = "search_travel_emails"
    /\ IF Len(email_files) = 0
       THEN /\ error' = "ZeroDivisionError in search_travel_emails_async"
            /\ pc' = "aborted"
            /\ UNCHANGED travel_emails
       ELSE /\ travel_emails' = search_travel_emails(email_files)
            /\ pc' = "extract_travel_info"
            /\ UNCHANGED error
    /\ UNCHANGED <<csv_rows, email_files, travel_data, gaps, all_travel_entries,
                   matching_entries, raw_entries, found_entries, incongruent_events, merged,
                   complete_data, gaps_filled, gaps_remaining, written, report>>
    /\ UNCHANGED detail_vars

\* raw_entries = await self.extract_travel_info_with_ai_async(travel_emails):
\* the candidates of the extraction service, then match_entries_to_gaps, whose
\* summary divides by len(self.gaps)
ExtractTravelInfo ==
    /\ pc = "extract_travel_info"
    /\ travel_emails # <<>>
    /\ \E entries \in SeqsUpTo(CandidateCatalogue, MaxCand) :
        /\ all_travel_entries' = entries
        /\ matching_entries' = MatchesPerGap(entries, gaps)
        /\ IF Len(gaps) = 0
           THEN /\ error' = "ZeroDivisionError in match_entries_to_gaps"
                /\ pc' = "aborted"
                /\ UNCHANGED raw_entries
           ELSE /\ raw_entries' = match_entries_to_gaps(entries, gaps)
                /\ pc' = "clean_entries"
                /\ UNCHANGED error
    /\ UNCHANGED <<csv_rows, email_files, travel_data, gaps, travel_emails, found_entries,
                   incongruent_events, merged, complete_data, gaps_filled, gaps_remaining,
                   written, report>>
    /\ UNCHANGED detail_vars

\* the else branch of "if travel_emails:"
NoTravelEmails ==
    /\ pc = "extract_travel_info"
    /\ travel_emails = <<>>
    /\ pc' = "detect_incongruent_events"
    /\ UNCHANGED <<csv_rows, email_files, travel_data, gaps, travel_emails, all_travel_entries,
                   matching_entries, raw_entries, found_entries, incongruent_events, merged,
                   complete_data, gaps_filled, gaps_remaining, written, report, error>>
    /\ UNCHANGED detail_vars

\* the cleaning loop: self.found_entries = [clean_travel_entry(entry, source_file) ...]
CleanEntries ==
    /\ pc = "clean_entries"
    /\ found_entries' = CleanAll(raw_entries)
    /\ pc' = "detect_incongruent_events"
    /\ UNCHANGED <<csv_rows, email_files, travel_data, gaps, travel_emails, all_travel_entries,
                   matching_entries, raw_entries, incongruent_events, merged, complete_data,
                   gaps_filled, gaps_remaining, written, report, error>>
    /\ UNCHANGED detail_vars

\* incongruent_events = self.detect_incongruent_events(self.travel_data)
DetectIncongruentEvents ==
    /\ pc = "detect_incongruent_events"
    /\ incongruent_events' = detect_incongruent_events(travel_data)
    /\ pc' = "generate_complete_table"
    /\ UNCHANGED <<csv_rows, email_files, travel_data, gaps, travel_emails, all_travel_entries,
                   matching_entries, raw_entries, found_entries, merged, complete_data,
                   gaps_filled, gaps_remaining, written, report, error>>
    /\ UNCHANGED detail_vars

\* complete_data = self.generate_complete_table()
GenerateCompleteTable ==
    /\ pc = "generate_complete_table"
    /\ merged' = generate_complete_table(travel_data, found_entries)
    /\ complete_data' = [i \in 1..Len(merged') |-> merged'[i].entry]
    /\ pc' = "add_connection_analysis"
    /\ UNCHANGED <<csv_rows, email_files, travel_data, gaps, travel_emails, all_travel_entries,
                   matching_entries, raw_entries, found_entries, incongruent_events,
                   gaps_filled, gaps_remaining, written, report, error>>
    /\ UNCHANGED detail_vars

\* complete_data = self.add_connection_analysis(complete_data)
AddConnectionAnalysis ==
    /\ pc = "add_connection_analysis"
    /\ complete_data' = add_connection_analysis(complete_data)
    /\ pc' = "check_gaps_filled"
    /\ UNCHANGED <<csv_rows, email_files, travel_data, gaps, travel_emails, all_travel_entries,
                   matching_entries, raw_entries, found_entries, incongruent_events, merged,
                   gaps_filled, gaps_remaining, written, report, error>>
    /\ UNCHANGED detail_vars

\* gaps_filled, gaps_remaining = self.check_gaps_filled(complete_data), verbose:
\* the results block divides by len(self.gaps) before the return
CheckGapsFilled ==
    /\ pc = "check_gaps_filled"
    /\ IF Len(gaps) = 0
       THEN /\ error' = "ZeroDivisionError in check_gaps_filled"
            /\ pc' = "aborted"
            /\ UNCHANGED <<gaps_filled, gaps_remaining>>
       ELSE /\ gaps_filled' = check_gaps_filled(complete_data, gaps)[1]
            /\ gaps_remaining' = check_gaps_filled(complete_data, gaps)[2]
            /\ pc' = "save_complete_table"
            /\ UNCHANGED error
    /\ UNCHANGED <<csv_rows, email_files, travel_data, gaps, travel_emails, all_travel_entries,
                   matching_entries, raw_entries, found_entries, incongruent_events, merged,
                   complete_data, written, report>>
    /\ UNCHANGED detail_vars

\* self.save_complete_table(complete_data, output_file)
SaveCompleteTable ==
    /\ pc = "save_complete_table"
    /\ written' = save_complete_table(complete_data)
    /\ pc' = "report"
    /\ UNCHANGED <<csv_rows, email_files, travel_data, gaps, travel_emails, all_travel_entries,
                   matching_entries, raw_entries, found_entries, incongruent_events, merged,
                   complete_data, gaps_filled, gaps_remaining, report, error>>
    /\ UNCHANGED detail_vars

\* the PROCESS COMPLETE block; the "Gaps filled" line divides by len(self.gaps)
FinalReport ==
    /\ pc = "report"
    /\ IF Len(gaps) = 0
       THEN /\ error' = "ZeroDivisionError in run_async"
            /\ pc' = "aborted"
            /\ UNCHANGED report
       ELSE /\ report' = [gaps_found |-> Len(gaps),
                          gaps_filled |-> gaps_filled,
                          gaps_remaining |-> gaps_remaining,
                          incongruent_events |-> Len(incongruent_events),
                          found_entries |-> Len(found_entries)]
            /\ pc' = "done"
            /\ UNCHANGED error
    /\ UNCHANGED <<csv_rows, email_files, travel_data, gaps, travel_emails, all_travel_entries,
                   matching_entries, raw_entries, found_entries, incongruent_events, merged,
                   complete_data, gaps_filled, gaps_remaining, written>>
    /\ UNCHANGED detail_vars

Next ==
    \/ LoadTravelData
    \/ IdentifyGaps
    \/ SearchTravelEmails
    \/ ExtractTravelInfo
    \/ NoTravelEmails
    \/ CleanEntries
    \/ DetectIncongruentEvents
    \/ GenerateCompleteTable
    \/ AddConnectionAnalysis
    \/ CheckGapsFilled
    \/ SaveCompleteTable
    \/ FinalReport

Spec == Init /\ [][Next]_vars

(***************************************************************************)
(* analyze_all_emails_with_ai_async step by step: the batch loop, the      *)
(* retry loop of call_openai_with_retry inside every batch, and the        *)
(* parsing of the response.  run_async calls it with a non-empty list of   *)
(* relevant documents; the other stages of the run are not in progress.    *)
(***************************************************************************)
outside_extraction ==
    <<csv_rows, email_files, travel_data, gaps, travel_emails, matching_entries, raw_entries,
      found_entries, incongruent_events, merged, complete_data, gaps_filled, gaps_remaining,
      written, report, error, data_with_connections>>

InitExtraction ==
    /\ csv_rows = <<>>
    /\ email_files = <<>>
    /\ travel_data = <<>>
    /\ gaps = <<>>
    /\ travel_emails \in {[k \in 1..n |-> "travel"] : n \in 1..MaxTravelEmails}
    /\ all_travel_entries = <<>>
    /\ matching_entries = <<>>
    /\ raw_entries = <<>>
    /\ found_entries = <<>>
    /\ incongruent_events = <<>>
    /\ merged = <<>>
    /\ complete_data = <<>>
    /\ gaps_filled = None
    /\ gaps_remaining = None
    /\ written = None
    /\ report = None
    /\ error = None
    /\ pc = "analyze_all_emails"
    /\ ExtractionIdle
    /\ SearchIdle
    /\ data_with_connections = <<>>

\* emails[i:i + batch_size]
batch_emails ==
    SubSeq(travel_emails, batch_offset + 1,
           IF batch_offset + analysis_batch_size < Len(travel_emails)
           THEN batch_offset + analysis_batch_size ELSE Len(travel_emails))

\* for i in range(0, len(emails), batch_size): the next batch enters
\* analyze_email_batch_with_ai_async and call_openai_with_retry
TakeBatch ==
    /\ pc = "analyze_all_emails"
    /\ batch_offset < Len(travel_emails)
    /\ attempt' = 0
    /\ api_calls' = <<>>
    /\ response' = NoResponse
    /\ pc' = "call_openai"
    /\ UNCHANGED <<batch_offset, batches, all_travel_entries, outside_extraction, search_vars>>

\* for attempt in range(max_retries + 1): the service answers, return response
CallReturns ==
    /\ pc = "call_openai"
    /\ attempt \in 0..max_retries
    /\ \E content \in ResponseCatalogue : response' = Response(content)
    /\ api_calls' = Append(api_calls, "returned")
    /\ pc' = "parse_response"
    /\ UNCHANGED <<batch_offset, attempt, batches, all_travel_entries, outside_extraction, search_vars>>

CallRaisesRetryingAnyError ==
    /\ pc = "call_openai"
    /\ attempt \in 0..max_retries
    /\ \E message \in ErrorCatalogue :
        /\ api_calls' = Append(api_calls, IF message \in RetryableErrors THEN "retryable" ELSE "other")
        /\ IF MayRetry(attempt)
           THEN /\ attempt' = attempt + 1
                /\ UNCHANGED <<response, pc>>
           ELSE /\ response' = NoResponse
                /\ pc' = "parse_response"
                /\ UNCHANGED attempt
    /\ UNCHANGED <<batch_offset, batches, all_travel_entries, outside_extraction, search_vars>>

\* for attempt in range(max_retries + 1): the service raises; a retryable error
\* before the last attempt waits (asyncio.sleep) and continues with the next
\* value of attempt, any other case returns None; attempt is therefore also the
\* number of backoff waits of the call
CallRaises ==
    /\ pc = "call_openai"
    /\ attempt \in 0..max_retries
    /\ \E message \in ErrorCatalogue :
        /\ api_calls' = Append(api_calls, IF message \in RetryableErrors THEN "retryable" ELSE "other")
        /\ IF message \in RetryableErrors /\ MayRetry(attempt)
           THEN /\ attempt' = attempt + 1
                /\ UNCHANGED <<response, pc>>
           ELSE /\ response' = NoResponse
                /\ pc' = "parse_response"
                /\ UNCHANGED attempt
    /\ UNCHANGED <<batch_offset, batches, all_travel_entries, outside_extraction, search_vars>>

\* the rest of analyze_email_batch_with_ai_async, then
\* all_travel_entries.extend(entries) and the next value of i
ExtendEntries ==
    /\ pc = "parse_response"
    /\ batches' = Append(batches, [emails |-> batch_emails, response |-> response,
                                   entries |-> ParseResponse(response)])
    /\ all_travel_entries' = all_travel_entries \o ParseResponse(response)
    /\ batch_offset' = batch_offset + analysis_batch_size
    /\ pc' = "analyze_all_emails"
    /\ UNCHANGED <<attempt, api_calls, response, outside_extraction, search_vars>>

\* the loop is exhausted: return all_travel_entries
ReturnEntries ==
    /\ pc = "analyze_all_emails"
    /\ batch_offset >= Len(travel_emails)
    /\ pc' = "match_entries_to_gaps"
    /\ UNCHANGED <<all_travel_entries, extraction_vars, outside_extraction, search_vars>>

NextExtraction ==
    \/ TakeBatch
    \/ CallReturns
    \/ CallRaises
    \/ ExtendEntries
    \/ ReturnEntries

SpecExtraction == InitExtraction /\ [][NextExtraction]_vars

\* every call of the service that call_openai_with_retry awaits returns or raises
FairExtraction == SpecExtraction /\ WF_vars(CallReturns \/ CallRaises)

(***************************************************************************)
(* search_travel_emails_async step by step: the batch loop, the semaphore  *)
(* process_email_batch holds for a whole batch, the parse tasks of the     *)
(* batch and the filtering of their results.  asyncio.gather starts every  *)
(* task of the batch before it waits and returns the results in the order  *)
(* of the documents, whichever task ends first; the tasks of the model end *)
(* in that order.                                                          *)
(***************************************************************************)
outside_search ==
    <<csv_rows, travel_data, gaps, all_travel_entries, matching_entries, raw_entries,
      found_entries, incongruent_events, merged, complete_data, gaps_filled, gaps_remaining,
      written, report, data_with_connections>>

\* n copies of a document
Repeat(doc, n) == [k \in 1..n |-> doc]

\* the corpora of the filtering stage, small ones and one larger than the limit
\* whose first document cannot be parsed
SmallCorpora ==
    { <<>>,
      <<"broken">>,
      <<"travel", "broken", "other", "travel">>,
      <<"other", "travel", "travel", "broken", "travel", "other", "travel">> }

LargeCorpus == <<"broken">> \o Repeat("travel", MaxDocuments - 1)

\* the arguments max_workers and batch_size of __init__ with the corpus of email_dir
SearchCatalogue ==
    ({[email_files |-> files, max_workers |-> 2, batch_size |-> 1] : files \in SmallCorpora}
     \cup {[email_files |-> files, max_workers |-> 4, batch_size |-> 3] : files \in SmallCorpora}
     \cup {[email_files |-> files, max_workers |-> 12, batch_size |-> batch_size] :
              files \in SmallCorpora \cup {LargeCorpus}}
     \cup {[email_files |-> LargeCorpus, max_workers |-> 4, batch_size |-> 7]})

InitSearch ==
    /\ \E run \in SearchCatalogue :
        /\ email_files = run.email_files
        /\ max_workers = run.max_workers
        /\ self_batch_size = run.batch_size
    /\ csv_rows = <<>>
    /\ travel_data = <<>>
    /\ gaps = <<>>
    /\ travel_emails = <<>>
    /\ all_travel_entries = <<>>
    /\ matching_entries = <<>>
    /\ raw_entries = <<>>
    /\ found_entries = <<>>
    /\ incongruent_events = <<>>
    /\ merged = <<>>
    /\ complete_data = <<>>
    /\ gaps_filled = None
    /\ gaps_remaining = None
    /\ written = None
    /\ report = None
    /\ error = None
    /\ pc = "search_loop"
    /\ scan_offset = 0
    /\ semaphore = max_workers
    /\ in_flight = <<>>
    /\ results = <<>>
    /\ processed_count = 0
    /\ ExtractionIdle
    /\ data_with_connections = <<>>

\* email_files[i:i + self.batch_size]
batch_files ==
    SubSeq(email_files, scan_offset + 1,
           IF scan_offset + self_batch_size < Len(email_files)
           THEN scan_offset + self_batch_size ELSE Len(email_files))

\* for i in range(0, len(email_files), self.batch_size): process_email_batch takes
\* the semaphore and asyncio.gather starts the parse task of every document
EnterBatch ==
    /\ pc = "search_loop"
    /\ scan_offset < Len(email_files)
    /\ semaphore > 0
    /\ semaphore' = semaphore - 1
    /\ in_flight' = batch_files
    /\ results' = <<>>
    /\ pc' = "gather"
    /\ UNCHANGED <<email_files, travel_emails, error, max_workers, self_batch_size,
                   scan_offset, processed_count, outside_search, extraction_vars>>

\* one parse task ends: parse_email_direct_async returns its dict or None
FinishParse ==
    /\ pc = "gather"
    /\ in_flight # <<>>
    /\ results' = Append(results, parse_email_direct(Head(in_flight)))
    /\ in_flight' = Tail(in_flight)
    /\ UNCHANGED <<email_files, travel_emails, error, pc, max_workers, self_batch_size,
                   scan_offset, semaphore, processed_count, outside_search, extraction_vars>>

\* gather returns: the results are filtered, the semaphore is released,
\* travel_emails.extend(batch_results), and the loop breaks on the limit
LeaveBatch ==
    /\ pc = "gather"
    /\ in_flight = <<>>
    /\ semaphore' = semaphore + 1
    /\ travel_emails' = travel_emails \o KeepRelevant(results)
    /\ processed_count' = processed_count + Len(results)
    /\ IF Len(travel_emails') >= RelevantLimit
       THEN /\ pc' = "search_summary"
            /\ UNCHANGED scan_offset
       ELSE /\ pc' = "search_loop"
            /\ scan_offset' = scan_offset + self_batch_size
    /\ UNCHANGED <<email_files, error, max_workers, self_batch_size, in_flight, results,
                   outside_search, extraction_vars>>

\* the range of the loop is exhausted
LeaveLoop ==
    /\ pc = "search_loop"
    /\ scan_offset >= Len(email_files)
    /\ pc' = "search_summary"
    /\ UNCHANGED <<email_files, travel_emails, error, search_vars, outside_search,
                   extraction_vars>>

\* the summary, whose last line divides by processed_count, and return travel_emails
ReturnTravelEmails ==
    /\ pc = "search_summary"
    /\ IF processed_count = 0
       THEN /\ error' = "ZeroDivisionError in search_travel_emails_async"
            /\ pc' = "aborted"
       ELSE /\ pc' = "extract_travel_info"
            /\ UNCHANGED error
    /\ UNCHANGED <<email_files, travel_emails, search_vars, outside_search, extraction_vars>>

NextSearch ==
    \/ EnterBatch
    \/ FinishParse
    \/ LeaveBatch
    \/ LeaveLoop
    \/ ReturnTravelEmails

SpecSearch == InitSearch /\ [][NextSearch]_vars

(***************************************************************************)
(* The run of run_async on a corpus without relevant documents, up to the  *)
(* merge: the stages that work on the input table alone.  The rows differ  *)
(* in the spelling of their countries and in the city, date and time of    *)
(* their departure.                                                        *)
(***************************************************************************)
DepartureCatalogue ==
    { Leg("  ", "Leeds", "2023-03-01", "10:00", "", "Paris", "2023-03-01", "", ""),
      Leg("unknown", "Leeds", "2023-03-01", "11:59", " United States ", "Lyon", "2023-03-01", "", "Original"),
      Leg("uk", "Leeds", "2023-03-01", "12:00", "FR", "Nice", "2023-03-02", "", ""),
      Leg("fr", "St_Ives", "2023-03-02", "", "XX", "Leeds", "2023-03-02", "", ""),
      Leg("xx", "Leeds", "2023-03-01", "7pm", "invalid_code", "Leeds", "2023-03-03", "", "scan.eml") }

InitNoCandidates ==
    /\ csv_rows \in SeqsUpTo(DepartureCatalogue, MaxLegs)
    /\ email_files = <<"other">>
    /\ travel_data = <<>>
    /\ gaps = <<>>
    /\ travel_emails = <<>>
    /\ all_travel_entries = <<>>
    /\ matching_entries = <<>>
    /\ raw_entries = <<>>
    /\ found_entries = <<>>
    /\ incongruent_events = <<>>
    /\ merged = <<>>
    /\ complete_data = <<>>
    /\ gaps_filled = None
    /\ gaps_remaining = None
    /\ written = None
    /\ report = None
    /\ error = None
    /\ pc = "load_travel_data"
    /\ ExtractionIdle
    /\ SearchIdle
    /\ data_with_connections = <<>>

NextNoCandidates ==
    \/ LoadTravelData
    \/ IdentifyGaps
    \/ SearchTravelEmails
    \/ NoTravelEmails
    \/ DetectIncongruentEvents
    \/ GenerateCompleteTable

SpecNoCandidates == InitNoCandidates /\ [][NextNoCandidates]_vars

(***************************************************************************)
(* The two connection analyses on the same rows: add_connection_analysis   *)
(* of add_connection_analysis.py and AsyncTravelParser's method of the     *)
(* same name, each applied to the rows of one table.  The first two rows   *)
(* of the catalogue are those of test_connection_analysis.                 *)
(***************************************************************************)
ConnectionCatalogue ==
    { Leg("GB", "London", "2025-08-01", "11:35", "ME", "Tivat (TIV)", "2025-08-01", "13:40", "test1"),
      Leg("ME", "Tivat (TIV)", "2025-08-07", "12:00", "GB", "London", "2025-08-07", "14:00", "test2"),
      Leg("gb", "london", "2025-08-23", "10:45", "", "Paris (FR)", "2025-08-22", "23:25", "test3"),
      Leg("", "Paris", "2025-08-24", "", "FR", "Unknown", "2025-08-24", "", ""),
      Leg("fr", "Unknown", "2025-08-25", "", "GB", "London (GB)", "2025-08-25", "", "") }

InitConnection ==
    /\ csv_rows \in SeqsUpTo(ConnectionCatalogue, MaxLegs)
    /\ email_files = <<>>
    /\ travel_data = <<>>
    /\ gaps = <<>>
    /\ travel_emails = <<>>
    /\ all_travel_entries = <<>>
    /\ matching_entries = <<>>
    /\ raw_entries = <<>>
    /\ found_entries = <<>>
    /\ incongruent_events = <<>>
    /\ merged = <<>>
    /\ complete_data = <<>>
    /\ gaps_filled = None
    /\ gaps_remaining = None
    /\ written = None
    /\ report = None
    /\ error = None
    /\ pc = "standalone_analysis"
    /\ ExtractionIdle
    /\ SearchIdle
    /\ data_with_connections = <<>>

\* data_with_connections = add_connection_analysis(data) of the script
StandaloneAnalysis ==
    /\ pc = "standalone_analysis"
    /\ data_with_connections' = standalone_add_connection_analysis(csv_rows)
    /\ pc' = "class_analysis"
    /\ UNCHANGED <<csv_rows, email_files, travel_data, gaps, travel_emails, all_travel_entries,
                   matching_entries, raw_entries, found_entries, incongruent_events, merged,
                   complete_data, gaps_filled, gaps_remaining, written, report, error,
                   extraction_vars, search_vars>>

\* complete_data = self.add_connection_analysis(complete_data) on the same rows
ClassAnalysis ==
    /\ pc = "class_analysis"
    /\ complete_data' = add_connection_analysis(csv_rows)
    /\ pc' = "connections_analysed"
    /\ UNCHANGED <<csv_rows, email_files, travel_data, gaps, travel_emails, all_travel_entries,
                   matching_entries, raw_entries, found_entries, incongruent_events, merged,
                   gaps_filled, gaps_remaining, written, report, error, detail_vars>>

NextConnection == StandaloneAnalysis \/ ClassAnalysis

SpecConnection == InitConnection /\ [][NextConnection]_vars


(***************************************************************************)
(* load_travel_data and identify_gaps on tables whose legs differ in their *)
(* dates: the three legs of test_requirements.py, a leg whose arrival date *)
(* does not parse and a leg without a departure date that arrives late.    *)
(***************************************************************************)
DateCatalogue ==
    { Leg("GB", "London (LHR)", "2023-02-05", "18:25", "QA", "Doha (DOH)", "2023-02-06", "04:15", "Original"),
      Leg("QA", "Doha (DOH)", "2023-02-06", "08:05", "TH", "Bangkok (BKK)", "2023-02-06", "18:25", "Original"),
      Leg("MY", "Kuala Lumpur (KUL)", "2023-03-10", "20:15", "LK", "Colombo (CMB)", "2023-03-10", "21:15", "Original"),
      Leg("TH", "Bangkok (BKK)", "2023-2-7", "09:00", "TH", "Phuket", "15/03/2023", "", ""),
      Leg("LK", "Galle", "Unknown", "", "IN", "Delhi", "2023-03-10", "", "") }

InitGaps ==
    /\ csv_rows \in SeqsUpTo(DateCatalogue, MaxLegs)
    /\ email_files = <<>>
    /\ travel_data = <<>>
    /\ gaps = <<>>
    /\ travel_emails = <<>>
    /\ all_travel_entries = <<>>
    /\ matching_entries = <<>>
    /\ raw_entries = <<>>
    /\ found_entries = <<>>
    /\ incongruent_events = <<>>
    /\ merged = <<>>
    /\ complete_data = <<>>
    /\ gaps_filled = None
    /\ gaps_remaining = None
    /\ written = None
    /\ report = None
    /\ error = None
    /\ pc = "load_travel_data"
    /\ ExtractionIdle
    /\ SearchIdle
    /\ data_with_connections = <<>>

NextGaps == LoadTravelData \/ IdentifyGaps

SpecGaps == InitGaps /\ [][NextGaps]_vars

(***************************************************************************)
(* Properties.                                                             *)
(***************************************************************************)
\* identify_gaps has returned and run_async is about to search the emails;
\* no later step assigns travel_data or gaps
GapsIdentified == pc = "search_travel_emails"

\* 0-based indexes i of the junctions leg i -> leg i+1 of travel_data
Junctions == 0..(Len(travel_data) - 2)

ArrivalToken(i) == Lower(extract_city_name(travel_data[i + 1].arrival_city))
NextDepartureToken(i) == Lower(extract_city_name(travel_data[i + 2].departure_city))

GapIndexes == {gaps[g].gap_index : g \in 1..Len(gaps)}

\* C1: when identify_gaps returns, a junction (leg i, leg i+1) of travel_data has
\* a Gap if and only if the city names extract_city_name gives for leg i's
\* arrival and leg i+1's departure differ case-insensitively; it then has
\* exactly one Gap, whose current_arrival and next_departure are those two city
\* names; a junction with equal city names has none, whatever its countries.
C1_GapIffCityTokensDiffer ==
    GapsIdentified =>
        /\ \A i \in Junctions : (i \in GapIndexes) <=> (ArrivalToken(i) # NextDepartureToken(i))
        /\ \A g, h \in 1..Len(gaps) : gaps[g].gap_index = gaps[h].gap_index => g = h
        /\ \A g \in 1..Len(gaps) :
            /\ gaps[g].gap_index \in Junctions
            /\ gaps[g].current_arrival
                 = extract_city_name(travel_data[gaps[g].gap_index + 1].arrival_city)
            /\ gaps[g].next_departure
                 = extract_city_name(travel_data[gaps[g].gap_index + 2].departure_city)

\* an itinerary with a gap and with a junction whose cities agree while its
\* countries and the raw city strings do not
C1_Witness ==
    /\ GapsIdentified
    /\ gaps # <<>>
    /\ \E i \in Junctions :
        /\ i \notin GapIndexes
        /\ travel_data[i + 1].arrival_city # travel_data[i + 2].departure_city
        /\ Lower(travel_data[i + 1].arrival_country) # Lower(travel_data[i + 2].departure_country)

\* positions of merged that hold the candidate found_entries[j] (0-based j)
SplicesOf(j) ==
    {p \in 1..Len(merged) : merged[p].origin = "found_entries" /\ merged[p].index = j}

\* no candidate follows the original leg i (0-based) in merged
NothingSplicedAfter(i) ==
    \A p \in 1..Len(merged) :
        (merged[p].origin = "travel_data" /\ merged[p].index = i)
            => (p = Len(merged) \/ merged[p + 1].origin = "travel_data")

\* C2: generate_complete_table splices every candidate of found_entries into the
\* merged itinerary at most once, also when its city names fit two junctions.
C2_CandidateSplicedAtMostOnce ==
    \A j \in 0..(Len(found_entries) - 1) : Cardinality(SplicesOf(j)) <= 1

\* a candidate that fits two junctions and was spliced once
C2_Witness ==
    /\ merged # <<>>
    /\ \E j \in 0..(Len(found_entries) - 1) :
        /\ Cardinality(SplicesOf(j)) = 1
        /\ \E i1, i2 \in Junctions :
            /\ i1 # i2
            /\ FillsJunction(found_entries[j + 1], travel_data[i1 + 1], travel_data[i1 + 2])
            /\ FillsJunction(found_entries[j + 1], travel_data[i2 + 1], travel_data[i2 + 2])
            /\ NothingSplicedAfter(i2)

\* match_entries_to_gaps has returned: matching_entries holds, per gap, what
\* find_entries_for_gap returned for the candidates of all_travel_entries
Matched == pc = "clean_entries"

\* the candidate's departure_date parses and lies within seven days of the gap
InGapWindow(entry, gap) ==
    /\ "departure_date" \in DOMAIN entry
    /\ DateParses(gap.current_arrival_date)
    /\ DateParses(gap.next_departure_date)
    /\ LET entry_date == ParseDate(entry.departure_date)
       IN  /\ entry_date # -1
           /\ entry_date >= ParseDate(gap.current_arrival_date) - 7
           /\ entry_date <= ParseDate(gap.next_departure_date) + 7

\* one string is a substring of the other, case-insensitively
EitherContains(a, b) == Contains(Lower(a), Lower(b)) \/ Contains(Lower(b), Lower(a))

\* C3 as stated: find_entries_for_gap returns, in the order of the candidates,
\* exactly those whose departure_date parses and lies in
\* [current_arrival_date - 7 days, next_departure_date + 7 days] and whose
\* departure and arrival city tokens (extract_city_name of the candidate's
\* cities) overlap the gap's current_arrival and next_departure as substrings.
C3_AcceptedIffWindowAndTokensOverlap ==
    Matched => \A g \in 1..Len(gaps) :
        matching_entries[g] =
            SelectSeq(all_travel_entries,
                      LAMBDA entry :
                          /\ InGapWindow(entry, gaps[g])
                          /\ EitherContains(gaps[g].current_arrival,
                                 extract_city_name(Get(entry, "departure_city", "")))
                          /\ EitherContains(gaps[g].next_departure,
                                 extract_city_name(Get(entry, "arrival_city", ""))))

\* C3 amended: find_entries_for_gap returns, in the order of the candidates,
\* exactly those whose departure_date parses and lies in
\* [current_arrival_date - 7 days, next_departure_date + 7 days] and whose
\* departure_city and arrival_city strings as given (absent: empty), not their
\* city tokens, overlap the gap's current_arrival and next_departure as
\* substrings, case-insensitively; a rejected candidate does not end the scan.
C3_AcceptedIffWindowAndCitiesOverlap ==
    Matched => \A g \in 1..Len(gaps) :
        matching_entries[g] =
            SelectSeq(all_travel_entries,
                      LAMBDA entry :
                          /\ InGapWindow(entry, gaps[g])
                          /\ EitherContains(gaps[g].current_arrival,
                                            Get(entry, "departure_city", ""))
                          /\ EitherContains(gaps[g].next_departure,
                                            Get(entry, "arrival_city", "")))

\* a gap for which a candidate dated before the window, or one without a
\* parseable date, was passed over and a later candidate was accepted
C3_Witness ==
    Matched /\ \E g \in 1..Len(gaps) :
        /\ \E p, q \in 1..Len(all_travel_entries) :
            /\ p < q
            /\ \/ ~DateParses(Get(all_travel_entries[p], "departure_date", ""))
               \/ /\ DateParses(all_travel_entries[p].departure_date)
                  /\ DateParses(gaps[g].current_arrival_date)
                  /\ ParseDate(all_travel_entries[p].departure_date)
                         < ParseDate(gaps[g].current_arrival_date) - 7
            /\ matching_entries[g] = <<all_travel_entries[q]>>

\* load_travel_data has returned
Loaded == pc = "identify_gaps"

\* the day of the sort key: the departure date, or 1900-01-01 when it does not parse
DepartureDay(entry) ==
    LET day == ParseDate(entry.departure_date)
    IN  IF day # -1 THEN day ELSE Ordinal(1900, 1, 1)

\* the minute of the sort key: the departure time, midnight when it is empty or
\* does not parse, and midnight for a leg that takes the sentinel day
DepartureMinute(entry) ==
    IF DateParses(entry.departure_date) THEN SortTimeMinutes(entry.departure_time) ELSE 0

NotAfter(a, b) == a[1] < b[1] \/ (a[1] = b[1] /\ a[2] <= b[2])

\* every leg of the sequence departs no later than the leg after it
Chronological(legs) ==
    LET departure == [i \in 1..Len(legs) |-> <<DepartureDay(legs[i]), DepartureMinute(legs[i])>>]
    IN  \A i \in 1..(Len(legs) - 1) : NotAfter(departure[i], departure[i + 1])

Occurrences(seq, x) == Cardinality({i \in 1..Len(seq) : seq[i] = x})

\* the two sequences hold the same elements, each as often
SameLegs(seq1, seq2) ==
    /\ Len(seq1) = Len(seq2)
    /\ \A i \in 1..Len(seq1) : Occurrences(seq1, seq1[i]) = Occurrences(seq2, seq1[i])

NormalizedRows == [i \in 1..Len(csv_rows) |-> normalize_travel_entry_country_codes(csv_rows[i])]

\* save_complete_table has returned
Saved == pc = "report"

\* C4: sort_travel_data_chronologically returns the legs it was given, every
\* leg as often as given, each departing no later than the leg after it, by
\* departure date first (a date that does not parse counting as 1900-01-01
\* 00:00) and departure time second (an empty or unparseable time counting as
\* 00:00): so travel_data after load_travel_data, for the rows of the input table
\* with their country fields normalized, and so the rows save_complete_table
\* writes, for the legs of complete_data.
C4_SortedByDepartureDateAndTime ==
    /\ Loaded =>
           /\ SameLegs(travel_data, NormalizedRows)
           /\ Chronological(travel_data)
    /\ Saved =>
           /\ SameLegs(written, [i \in 1..Len(complete_data) |-> WrittenRow(complete_data[i])])
           /\ Chronological(written)

\* a table that was not in order: a leg without a parseable date came first, and
\* of two legs of one day the one whose time does not parse went to midnight,
\* before the one with a time, against the order of the rows; and a merged
\* itinerary that was written in another order, its latest day last
C4_Witness ==
    /\ Saved
    /\ Len(travel_data) = 3
    /\ ~DateParses(travel_data[1].departure_date)
    /\ ~DateParses(NormalizedRows[3].departure_date)
    /\ DepartureDay(travel_data[2]) = DepartureDay(travel_data[3])
    /\ travel_data[2].departure_time \notin {"", "N/A"}
    /\ DepartureMinute(travel_data[2]) = 0
    /\ DepartureMinute(travel_data[3]) > 0
    /\ NormalizedRows[1] = travel_data[3]
    /\ written # [i \in 1..Len(complete_data) |-> WrittenRow(complete_data[i])]
    /\ DepartureDay(written[Len(written) - 1]) < DepartureDay(written[Len(written)])

\* C5: normalizing a country field a second time changes nothing: for every
\* country value x of the rows load_travel_data has read,
\* normalize_country_code(normalize_country_code(x)) = normalize_country_code(x),
\* the blank value and Unknown included, and re-normalizing the country fields
\* of a loaded leg of travel_data or of a cleaned leg of found_entries leaves
\* the leg as it is.
C5_NormalizationIdempotent ==
    /\ \A i \in 1..Len(travel_data) : \A k \in {"departure_country", "arrival_country"} :
           normalize_country_code(normalize_country_code(csv_rows[i][k]))
               = normalize_country_code(csv_rows[i][k])
    /\ \A i \in 1..Len(travel_data) :
           normalize_travel_entry_country_codes(travel_data[i]) = travel_data[i]
    /\ \A j \in 1..Len(found_entries) :
           normalize_travel_entry_country_codes(found_entries[j]) = found_entries[j]

\* check_gaps_filled has returned
GapsChecked == pc \in {"save_complete_table", "report", "done"}

\* gaps a leg of complete_data bridges from a position after the gap's own index
\* (positions and gap_index both counted from 0)
BridgedGaps ==
    {g \in 1..Len(gaps) :
        \E p \in 0..(Len(complete_data) - 1) :
            /\ p > gaps[g].gap_index
            /\ Lower(extract_city_name(Get(complete_data[p + 1], "departure_city", "")))
                   = Lower(gaps[g].current_arrival)
            /\ Lower(extract_city_name(Get(complete_data[p + 1], "arrival_city", "")))
                   = Lower(gaps[g].next_departure)}

\* C6: the two counts check_gaps_filled returns add up to the number of gaps,
\* and the first counts exactly the gaps for which some leg at a position after
\* the gap's original index has the departure city token of the gap's
\* current_arrival and the arrival city token of its next_departure,
\* case-insensitively.
C6_FilledCountsBridgedGaps ==
    GapsChecked =>
        /\ gaps_filled + gaps_remaining = Len(gaps)
        /\ gaps_filled = Cardinality(BridgedGaps)

\* a run in which one gap counts as filled and another does not, although the
\* leg that would bridge it stands in complete_data at or before the gap's index
C6_Witness ==
    /\ GapsChecked
    /\ gaps_filled >= 1
    /\ \E g \in 1..Len(gaps) :
        /\ g \notin BridgedGaps
        /\ \E p \in 0..gaps[g].gap_index :
            /\ Lower(extract_city_name(Get(complete_data[p + 1], "departure_city", "")))
                   = Lower(gaps[g].current_arrival)
            /\ Lower(extract_city_name(Get(complete_data[p + 1], "arrival_city", "")))
                   = Lower(gaps[g].next_departure)

\* C7: in the merged itinerary a candidate stands only behind an original leg
\* that precedes a gap, that is, whose arrival city token differs from the
\* departure city token of the next original leg; behind a leg whose arrival
\* already joins the next departure no candidate is inserted.
C7_SplicedOnlyAtGaps ==
    \A p \in 1..Len(merged) :
        merged[p].origin = "found_entries" =>
            /\ p > 1
            /\ merged[p - 1].origin = "travel_data"
            /\ merged[p - 1].index \in Junctions
            /\ ArrivalToken(merged[p - 1].index) # NextDepartureToken(merged[p - 1].index)

Analysed == pc \in {"check_gaps_filled", "save_complete_table", "report", "done"}

\* C8: the merged itinerary is in chronological order before it is final: the
\* sequence that connection analysis has annotated and that check_gaps_filled
\* scans is sorted by departure date and time, and the rows of the file are
\* that same sequence in that same order.
C8_FinalSequenceSortedBeforeUse ==
    /\ Analysed => Chronological(complete_data)
    /\ Saved => written = [i \in 1..Len(complete_data) |-> WrittenRow(complete_data[i])]

MatchValues == {MatchYes, MatchNo, NotApplicable}

\* C9: every row of the written table has next_country_match and
\* next_city_match among the check mark, the cross and N/A, and N/A stands on
\* the last row and on no other.
C9_NotApplicableOnlyOnLastRow ==
    Saved =>
        \A i \in 1..Len(written) :
            /\ written[i].next_country_match \in MatchValues
            /\ written[i].next_city_match \in MatchValues
            /\ (written[i].next_country_match = NotApplicable) <=> (i = Len(written))
            /\ (written[i].next_city_match = NotApplicable) <=> (i = Len(written))

\* C10: no stage ends the run early, and the finished run's report states the
\* gaps found, the gaps filled, the gaps remaining and the incongruent events
\* detected, whatever is empty.
C10_RunReachesFinalReport ==
    /\ pc # "aborted"
    /\ pc = "done" =>
           /\ report.gaps_found = Len(gaps)
           /\ report.gaps_filled + report.gaps_remaining = Len(gaps)
           /\ report.incongruent_events = Len(incongruent_events)

\* every call of the service for the current batch raised a retryable error
OnlyRetryableErrors ==
    api_calls # <<>> /\ \A k \in 1..Len(api_calls) : api_calls[k] = "retryable"

\* call_openai_with_retry has returned and the batch is about to be parsed
RetryReturned == pc = "parse_response"

\* analyze_email_batch_with_ai_async has returned for the batch of api_calls
BatchReturned == pc = "analyze_all_emails" /\ batches # <<>>

\* C11 as stated: when every call of the service for a batch fails with a
\* retryable error, the service is called at most 3 times for that batch.
C11_AtMostThreeCalls == OnlyRetryableErrors => Len(api_calls) <= 3

\* C11 amended: when every call of the service for a batch fails with a
\* retryable error, call_openai_with_retry with its default setting calls the
\* service at most 4 times (the first call and 3 retries), then gives up with
\* no response, the batch yields no candidates, and the retry loop terminates:
\* every turn that stays in the loop is a new attempt, and the loop is left.
C11_GivesUpAfterFourCalls ==
    /\ [](OnlyRetryableErrors => Len(api_calls) <= 4)
    /\ []((RetryReturned /\ OnlyRetryableErrors) => response = NoResponse)
    /\ []((BatchReturned /\ OnlyRetryableErrors) => batches[Len(batches)].entries = <<>>)
    /\ [][(pc = "call_openai" /\ pc' = "call_openai")
            => (attempt' = attempt + 1 /\ attempt' <= max_retries)]_vars
    /\ (pc = "call_openai" ~> pc = "parse_response")

\* four retryable failures in a row, after which the call has given up
C11_Witness ==
    RetryReturned /\ OnlyRetryableErrors /\ Len(api_calls) = 4 /\ response = NoResponse

\* analyze_all_emails_with_ai_async has returned
AnalysisReturned == pc = "match_entries_to_gaps"

\* the text of a response, stripped
TextOf(r) == Strip(r.content)

\* the text from the first "[" to the last "]" of c, "" when there is no such text
ArraySpan(c) ==
    IF Find("[", c, 1) # 0 /\ RFind("]", c) > Find("[", c, 1)
    THEN SubSeq(c, Find("[", c, 1), RFind("]", c))
    ELSE ""

\* the failures of a batch as C12 lists them: no response (service error or retries
\* used up), a text without JSON, a text that starts as JSON and is malformed,
\* a JSON text that is not an array
NoJson(c) == ~Contains("[", c) /\ ~Contains("{", c)
MalformedJson(c) == c # "" /\ Peek(c, 1, 1) \in {"[", "{"} /\ ~json_loads(c).ok
NotAnArray(c) == json_loads(c).ok /\ "list" \notin DOMAIN json_loads(c).value
FailedAsListed(r) ==
    \/ r = NoResponse
    \/ /\ r # NoResponse
       /\ NoJson(TextOf(r)) \/ MalformedJson(TextOf(r)) \/ NotAnArray(TextOf(r))

\* the concatenation of the lists of the batches
RECURSIVE EntriesOf(_)
EntriesOf(bs) == IF bs = <<>> THEN <<>> ELSE bs[1].entries \o EntriesOf(Tail(bs))

RECURSIVE EmailsOf(_)
EmailsOf(bs) == IF bs = <<>> THEN <<>> ELSE bs[1].emails \o EmailsOf(Tail(bs))

\* every email was sent, in order, in batches of at most analysis_batch_size, and
\* the result is the concatenation of the lists of the batches
AllBatchesSent ==
    /\ EmailsOf(batches) = travel_emails
    /\ \A k \in 1..Len(batches) :
        /\ batches[k].emails # <<>>
        /\ Len(batches[k].emails) <= analysis_batch_size
    /\ all_travel_entries = EntriesOf(batches)
    /\ error = None

\* C12 as stated: a batch that fails in one of the listed ways contributes an empty
\* list, every batch is sent and the result is the concatenation of the lists.
C12_ListedFailureYieldsNothing ==
    AnalysisReturned =>
        /\ AllBatchesSent
        /\ \A k \in 1..Len(batches) :
            FailedAsListed(batches[k].response) => batches[k].entries = <<>>

\* C12 amended: a batch contributes an empty list when the service gave no response
\* or the text from the first "[" to the last "]" of the response is missing or is
\* not a well-formed JSON array, and the array of that text otherwise, also when
\* the response as a whole is JSON that is not an array; every batch is sent and
\* the result is the in-order concatenation of the lists of the batches.
C12_BatchYieldsArraySpanOrNothing ==
    AnalysisReturned =>
        /\ AllBatchesSent
        /\ \A k \in 1..Len(batches) :
            LET r == batches[k].response
                span == json_loads(ArraySpan(TextOf(r)))
            IN  IF r = NoResponse \/ ~span.ok
                THEN batches[k].entries = <<>>
                ELSE batches[k].entries = span.value.list

\* three batches: the first fails, the second answers with an array inside prose,
\* the third with an object that wraps an array
C12_Witness ==
    /\ AnalysisReturned
    /\ Len(batches) = 3
    /\ batches[1].response = NoResponse
    /\ batches[2].entries # <<>>
    /\ batches[3].response # NoResponse
    /\ NotAnArray(TextOf(batches[3].response))
    /\ Len(all_travel_entries) = 2

\* search_travel_emails_async has returned travel_emails
SearchReturned == pc = "extract_travel_info" /\ processed_count > 0

\* the documents the scan went through, parsed
ScannedResults ==
    [k \in 1..processed_count |-> parse_email_direct(email_files[k])]

\* C13: search_travel_emails_async returns at most 1000 documents, for any corpus
\* and any batch size; each of them matches the keyword filter and they are the
\* matching documents of the scanned part of the corpus, in scan order.
C13_AtMostLimitKept ==
    SearchReturned =>
        /\ Len(travel_emails) <= RelevantLimit
        /\ \A k \in 1..Len(travel_emails) : MatchesKeywords(travel_emails[k])
        /\ travel_emails = KeepRelevant(ScannedResults)

\* C14: while the documents are filtered, the number of documents whose parsing
\* has started and not ended never exceeds max_workers, whatever the batch size.
C14_ParsedWithinWorkerLimit == Len(in_flight) <= max_workers

\* the corpus without the documents whose parsing fails
WithoutFailing(files) == SelectSeq(files, LAMBDA file : parse_email_direct(file) # None)

\* C15: a document whose parsing fails contributes nothing and cancels nothing:
\* every document of the scanned batches has a result, and the documents kept are
\* those kept from the corpus without the failing documents.
C15_FailingDocumentChangesNothing ==
    SearchReturned =>
        /\ processed_count <= Len(email_files)
        /\ travel_emails = SearchFrom(WithoutFailing(email_files), 1, <<>>, self_batch_size)

\* the countries on the two sides of the junction of gap g
GapArrivalCountry(g) == travel_data[gaps[g].gap_index + 1].arrival_country
GapDepartureCountry(g) == travel_data[gaps[g].gap_index + 2].departure_country

\* C16: every Gap identify_gaps emits has severity COUNTRY, with is_country_gap
\* true, exactly when the arrival_country of leg i and the departure_country of
\* leg i+1 differ case-insensitively, and severity CITY, with is_country_gap
\* false, otherwise.
C16_SeverityIffCountriesDiffer ==
    GapsIdentified =>
        \A g \in 1..Len(gaps) :
            /\ gaps[g].is_country_gap <=> (Upper(GapArrivalCountry(g)) # Upper(GapDepartureCountry(g)))
            /\ gaps[g].gap_type = (IF gaps[g].is_country_gap THEN "COUNTRY" ELSE "CITY")
            /\ gaps[g].current_arrival_country = GapArrivalCountry(g)
            /\ gaps[g].next_departure_country = GapDepartureCountry(g)

\* an itinerary with a CITY gap whose countries differ in case only and a
\* COUNTRY gap
C16_Witness ==
    /\ GapsIdentified
    /\ \E g, h \in 1..Len(gaps) :
        /\ gaps[g].gap_type = "CITY"
        /\ GapArrivalCountry(g) # GapDepartureCountry(g)
        /\ gaps[h].gap_type = "COUNTRY"
        /\ gaps[h].is_country_gap

\* the value C17 gives for an input: Unknown for an empty or blank input, the
\* mapped code when the trimmed upper-cased input is a key of the alias table,
\* and the trimmed upper-cased input itself in every other case, two letters or not
CanonicalCountry(input) ==
    LET code == Upper(Strip(input))
    IN  CASE code = "" -> "Unknown"
          [] code # "" /\ code \in DOMAIN country_mappings -> country_mappings[code]
          [] OTHER -> code

\* the examples of C17 and of test_fr10_country_code_normalization
CountryExamples ==
    { <<"uk", "GB">>, <<" United States ", "US">>, <<"XX", "XX">>, <<"xx", "XX">>,
      <<"invalid_code", "INVALID_CODE">>, <<"", "Unknown">>, <<"  ", "Unknown">>,
      <<"unknown", "UNKNOWN">>, <<"FR", "FR">>, <<"fr", "FR">> }

\* row of the input table as C17 expects load_travel_data to store it
WithCanonicalCountries(row) ==
    [row EXCEPT !.departure_country = CanonicalCountry(row.departure_country),
                !.arrival_country = CanonicalCountry(row.arrival_country)]

\* C17: normalize_country_code trims and upper-cases its input and returns Unknown
\* for an empty or blank input, the mapped ISO code when the result is a key of the
\* alias table, and the trimmed upper-cased input otherwise, whether or not it is
\* 2 letters: load_travel_data stores every row with both countries so normalized.
C17_CountryNormalizedAsStated ==
    Loaded =>
        /\ SameLegs(travel_data,
                    [i \in 1..Len(csv_rows) |-> WithCanonicalCountries(csv_rows[i])])
        /\ \A i \in 1..Len(csv_rows) : \A example \in CountryExamples :
            /\ csv_rows[i].departure_country = example[1]
                 => normalize_country_code(csv_rows[i].departure_country) = example[2]
            /\ csv_rows[i].arrival_country = example[1]
                 => normalize_country_code(csv_rows[i].arrival_country) = example[2]
            /\ csv_rows[i].arrival_country = example[1]
                 => \E k \in 1..Len(travel_data) : travel_data[k].arrival_country = example[2]

\* a table whose rows hold a blank country, an alias, a 2-letter code without alias
\* and a longer text without alias
C17_Witness ==
    /\ Loaded
    /\ \E i, j, k \in 1..Len(csv_rows) :
        /\ csv_rows[i].departure_country = "  " /\ csv_rows[i].arrival_country = ""
        /\ csv_rows[j].arrival_country = " United States "
        /\ csv_rows[k].departure_country = "xx" /\ csv_rows[k].arrival_country = "invalid_code"
    /\ \E k \in 1..Len(travel_data) :
        travel_data[k].departure_country = "XX" /\ travel_data[k].arrival_country = "INVALID_CODE"

\* detect_incongruent_events has returned
EventsDetected == pc = "generate_complete_table"

EventsOfType(type) == SelectSeq(incongruent_events, LAMBDA event : event.type = type)

\* the legs of travel_data that depart from the city on the date, in order
DeparturesOf(city, date) ==
    SelectSeq(travel_data, LAMBDA leg : leg.departure_city = city /\ leg.departure_date = date)

\* the pairs (departure_city, departure_date) that two or more legs share
SharedDepartures ==
    {pair \in {<<travel_data[i].departure_city, travel_data[i].departure_date>> :
                  i \in 1..Len(travel_data)} :
        Len(DeparturesOf(pair[1], pair[2])) >= 2}

\* C18: detect_incongruent_events emits exactly one multiple_departures event for
\* each pair (departure_city, departure_date) of raw strings that two or more legs
\* share; the city and date of the event are that pair, and its entries and count
\* are exactly the legs with that pair.
C18_OneEventPerSharedDeparture ==
    EventsDetected =>
        LET events == EventsOfType("multiple_departures")
        IN  /\ Len(events) = Cardinality(SharedDepartures)
            /\ \A k \in 1..Len(events) :
                /\ <<events[k].city, events[k].date>> \in SharedDepartures
                /\ events[k].entries = DeparturesOf(events[k].city, events[k].date)
                /\ events[k].count = Len(events[k].entries)
            /\ \A k, l \in 1..Len(events) :
                (events[k].city = events[l].city /\ events[k].date = events[l].date) => k = l

\* the clock times of DepartureCatalogue that read as HH:MM, in minutes after midnight
ClockMinutes == ("10:00" :> 600) @@ ("11:59" :> 719) @@ ("12:00" :> 720)

\* legs i < j leave the same city on the same date, less than two hours apart
CloseDepartures(i, j) ==
    /\ i < j
    /\ travel_data[i].departure_city = travel_data[j].departure_city
    /\ travel_data[i].departure_date = travel_data[j].departure_date
    /\ travel_data[i].departure_time \in DOMAIN ClockMinutes
    /\ travel_data[j].departure_time \in DOMAIN ClockMinutes
    /\ LET t1 == ClockMinutes[travel_data[i].departure_time]
           t2 == ClockMinutes[travel_data[j].departure_time]
       IN  t1 - t2 \in -119..119

ClosePairs ==
    {p \in (1..Len(travel_data)) \X (1..Len(travel_data)) : CloseDepartures(p[1], p[2])}

\* C19: detect_incongruent_events emits exactly one overlapping_times event for each
\* pair of legs i < j with the same departure_city and departure_date whose
\* departure times both read as HH:MM and differ by less than two hours, and no
\* other overlapping_times event; a pair exactly two hours apart, or with an empty
\* or unreadable time, yields none and does not stop the scan.
C19_OneEventPerClosePair ==
    EventsDetected =>
        LET events == EventsOfType("overlapping_times")
            LegsOf(p) == <<travel_data[p[1]], travel_data[p[2]]>>
        IN  /\ Len(events) = Cardinality(ClosePairs)
            /\ \A p \in ClosePairs :
                Cardinality({k \in 1..Len(events) : events[k].entries = LegsOf(p)})
                    = Cardinality({q \in ClosePairs : LegsOf(q) = LegsOf(p)})
            /\ \A k \in 1..Len(events) :
                \E p \in ClosePairs :
                    /\ events[k].entries = LegsOf(p)
                    /\ events[k].city = travel_data[p[1]].departure_city
                    /\ events[k].date = travel_data[p[1]].departure_date
                    /\ events[k].time1 = travel_data[p[1]].departure_time
                    /\ events[k].time2 = travel_data[p[2]].departure_time

\* three legs from one city on one date at 10:00, 11:59 and 12:00: two events, and
\* none for the pair exactly two hours apart
C19_Witness ==
    /\ EventsDetected
    /\ Len(travel_data) = 3
    /\ \A i \in 1..3 : travel_data[i].departure_city = "Leeds"
                       /\ travel_data[i].departure_date = "2023-03-01"
    /\ {travel_data[i].departure_time : i \in 1..3} = {"10:00", "11:59", "12:00"}
    /\ Len(EventsOfType("overlapping_times")) = 2
    /\ C19_OneEventPerClosePair

\* generate_complete_table has returned
TableGenerated == pc = "add_connection_analysis"

\* the elements of the merged table that come from travel_data, in order
OriginalLegs == SelectSeq(merged, LAMBDA element : element.origin = "travel_data")

LegFields ==
    {"departure_country", "departure_city", "departure_date", "departure_time",
     "arrival_country", "arrival_city", "arrival_date", "arrival_time", "notes", "source_file"}

\* the merged table holds every leg of travel_data once, in order, with at most its
\* source_file changed, and travel_data is still the table that was loaded
OriginalLegsCarriedOver ==
    /\ travel_data = load_travel_data(csv_rows)
    /\ complete_data = [k \in 1..Len(merged) |-> merged[k].entry]
    /\ Len(OriginalLegs) = Len(travel_data)
    /\ \A i \in 1..Len(travel_data) :
        /\ OriginalLegs[i].index = i - 1
        /\ \A field \in LegFields \ {"source_file"} :
            OriginalLegs[i].entry[field] = travel_data[i][field]

\* C20 as stated: generate_complete_table tags an original leg with source_file =
\* Original only if the leg is not already tagged; a leg that already has a
\* non-empty source_file keeps it in the merged table; travel_data is not modified.
C20_TaggedOnlyIfUntagged ==
    TableGenerated =>
        /\ OriginalLegsCarriedOver
        /\ \A i \in 1..Len(travel_data) :
            OriginalLegs[i].entry.source_file =
                IF travel_data[i].source_file # "" THEN travel_data[i].source_file
                ELSE "Original"

\* C20 (amended): generate_complete_table tags every original leg with source_file =
\* Original, whatever source_file the leg had; every original leg has a source_file
\* in the merged table; travel_data is not modified.
C20_EveryOriginalLegTaggedOriginal ==
    TableGenerated =>
        /\ OriginalLegsCarriedOver
        /\ \A i \in 1..Len(travel_data) : OriginalLegs[i].entry.source_file = "Original"

\* a loaded leg tagged scan.eml, an untagged one, and a candidate merged between them
C20_Witness ==
    /\ TableGenerated
    /\ \E i \in 1..Len(travel_data) : travel_data[i].source_file = "scan.eml"
    /\ \E i \in 1..Len(travel_data) : travel_data[i].source_file = ""
    /\ \E k \in 1..Len(merged) : merged[k].origin = "found_entries"
    /\ C20_EveryOriginalLegTaggedOriginal

\* the cleaning loop of run_async has returned
EntriesCleaned == pc = "detect_incongruent_events"

CountryFields == {"departure_country", "arrival_country"}

\* C21: every candidate of raw_entries is cleaned into found_entries; a cleaned
\* candidate has exactly the ten fields of a leg, its two countries are
\* normalized, and a country the candidate lacks or leaves blank is Unknown, the
\* value normalization gives for blank input.
C21_CleanedCandidateIsLeg ==
    EntriesCleaned =>
        /\ Len(found_entries) = Len(raw_entries)
        /\ \A i \in 1..Len(found_entries) :
            /\ DOMAIN found_entries[i] = LegFields
            /\ \A field \in CountryFields :
                found_entries[i][field] =
                    IF field \notin DOMAIN raw_entries[i] \/ Strip(raw_entries[i][field]) = ""
                    THEN normalize_country_code("")
                    ELSE normalize_country_code(raw_entries[i][field])

\* the position where the bracket opened at position start of c closes, 0 if it
\* never does
RECURSIVE BalancedEnd(_, _, _)
BalancedEnd(c, i, depth) ==
    IF i > Len(c) THEN 0
    ELSE LET d == IF Peek(c, i, 1) = "[" THEN depth + 1
                  ELSE IF Peek(c, i, 1) = "]" THEN depth - 1
                  ELSE depth
         IN  IF d = 0 THEN i ELSE BalancedEnd(c, i + 1, d)

\* the first balanced [...] span of c, "" when there is none
FirstBalancedSpan(c) ==
    LET start == Find("[", c, 1)
    IN  IF start = 0 \/ BalancedEnd(c, start, 0) = 0 THEN ""
        ELSE SubSeq(c, start, BalancedEnd(c, start, 0))

\* C22: the candidates of a batch are those of the first balanced [...] span of the
\* response text when that span is a well-formed JSON array, also when further
\* text with a "]" follows the array.
C22_FirstBalancedSpanParsed ==
    AnalysisReturned =>
        \A k \in 1..Len(batches) :
            batches[k].response # NoResponse =>
                LET span == json_loads(FirstBalancedSpan(TextOf(batches[k].response)))
                IN  (span.ok /\ "list" \in DOMAIN span.value) =>
                        batches[k].entries = span.value.list

\* C25: a call of the service that fails with an error that is neither rate-limit
\* nor context-length is never retried: it is the last call of its batch,
\* call_openai_with_retry returns no response without a backoff wait for it (one
\* attempt and no wait when it is the first call), and the batch yields no
\* candidates.
C25_NonRetryableNeverRetried ==
    /\ \A k \in 1..Len(api_calls) :
        api_calls[k] = "other" =>
            /\ k = Len(api_calls)
            /\ pc # "call_openai"
            /\ response = NoResponse
            /\ attempt = k - 1
    /\ (BatchReturned /\ api_calls # <<>> /\ api_calls[Len(api_calls)] = "other") =>
            batches[Len(batches)].entries = <<>>

\* a batch whose only call failed with a non-retryable error has returned empty
C25_Witness ==
    /\ BatchReturned
    /\ api_calls = <<"other">>
    /\ attempt = 0
    /\ batches[Len(batches)].response = NoResponse
    /\ batches[Len(batches)].entries = <<>>

\* both connection analyses have run on csv_rows
ConnectionsAnalysed == pc = "connections_analysed"

\* the country and city values of ConnectionCatalogue, numbered so that two values
\* have the same number exactly when they are equal up to letter case; the empty
\* string has no number
SpellingClass ==
    ("GB" :> 1) @@ ("gb" :> 1) @@ ("ME" :> 2) @@ ("FR" :> 3) @@ ("fr" :> 3) @@
    ("London" :> 4) @@ ("london" :> 4) @@ ("Tivat (TIV)" :> 5) @@ ("Paris (FR)" :> 6) @@
    ("Paris" :> 7) @@ ("Unknown" :> 8) @@ ("London (GB)" :> 9)

\* both values are non-empty and equal up to letter case
SameSpelling(a, b) ==
    a \in DOMAIN SpellingClass /\ b \in DOMAIN SpellingClass /\ SpellingClass[a] = SpellingClass[b]

Mark(match) == IF match THEN MatchYes ELSE MatchNo

\* C23: on two or more rows the standalone add_connection_analysis marks every
\* row but the last with a match in next_country_match exactly when its
\* arrival_country and the next row's departure_country are both non-empty and
\* equal up to letter case, likewise next_city_match from arrival_city and the
\* next departure_city, and marks both columns N/A on the last row and only there.
C23_StandaloneMarksFieldEquality ==
    (ConnectionsAnalysed /\ Len(csv_rows) >= 2) =>
        /\ Len(data_with_connections) = Len(csv_rows)
        /\ \A i \in 1..Len(csv_rows) :
            IF i < Len(csv_rows)
            THEN /\ data_with_connections[i].next_country_match =
                        Mark(SameSpelling(csv_rows[i].arrival_country,
                                          csv_rows[i + 1].departure_country))
                 /\ data_with_connections[i].next_city_match =
                        Mark(SameSpelling(csv_rows[i].arrival_city,
                                          csv_rows[i + 1].departure_city))
            ELSE /\ data_with_connections[i].next_country_match = NotApplicable
                 /\ data_with_connections[i].next_city_match = NotApplicable

\* three rows: countries GB / gb and cities London / london match up to case, then
\* an empty arrival country meets an empty departure country
C23_Witness ==
    /\ ConnectionsAnalysed
    /\ Len(csv_rows) = 3
    /\ csv_rows[1].arrival_country = "GB" /\ csv_rows[2].departure_country = "gb"
    /\ csv_rows[2].arrival_country = "" /\ csv_rows[3].departure_country = ""
    /\ data_with_connections[1].next_country_match = MatchYes
    /\ data_with_connections[1].next_city_match = MatchYes
    /\ data_with_connections[2].next_country_match = MatchNo
    /\ data_with_connections[3].next_country_match = NotApplicable

\* C30: on the same rows the method of the parser class and the standalone
\* function give the same next_country_match and next_city_match on every row.
C30_AnalysesAgree ==
    ConnectionsAnalysed =>
        /\ Len(complete_data) = Len(data_with_connections)
        /\ \A i \in 1..Len(complete_data) :
            \A column \in {"next_country_match", "next_city_match"} :
                Get(complete_data[i], column, "") = Get(data_with_connections[i], column, "")

\* the city token, in lower case, of every city string of RowCatalogue and of the
\* cleaned candidates of CandidateCatalogue
CityToken ==
    ("YORK - UK" :> "york") @@ ("york" :> "york") @@ ("York (GB)" :> "york") @@
    ("York (YRK)" :> "york") @@ ("York" :> "york") @@
    ("New York" :> "new york") @@ ("New York, NY" :> "new york") @@
    ("New York (JFK)" :> "new york") @@ ("Unknown" :> "unknown")

\* position in merged of the original leg i (1-based)
PositionOfLeg(i) ==
    CHOOSE p \in 1..Len(merged) : merged[p].origin = "travel_data" /\ merged[p].index = i - 1

\* the candidates (1-based positions of the pool) that stand directly behind the
\* original leg i in merged
SplicedBehind(i) ==
    LET p == PositionOfLeg(i)
    IN  IF p < Len(merged) /\ merged[p + 1].origin = "found_entries"
        THEN {merged[p + 1].index + 1}
        ELSE {}

\* the candidates spliced behind the legs before leg i
UsedBefore(i) == UNION {SplicedBehind(k) : k \in 1..(i - 1)}

\* candidate j joins leg i to leg i + 1 by city tokens
JoinsLegs(j, i) ==
    /\ CityToken[found_entries[j].departure_city] = CityToken[travel_data[i].arrival_city]
    /\ CityToken[found_entries[j].arrival_city] = CityToken[travel_data[i + 1].departure_city]

\* the candidates that may be spliced behind leg i
Eligible(i) ==
    IF i >= Len(travel_data) THEN {}
    ELSE {j \in 1..Len(found_entries) : j \notin UsedBefore(i) /\ JoinsLegs(j, i)}

DayOfYear ==
    ("2023-02-05" :> 36) @@ ("2023-02-06" :> 37) @@ ("2023-2-7" :> 38) @@ ("2023-03-10" :> 69)

\* the three legs of test_requirements.py, as loaded
TestLegs ==
    <<Leg("GB", "London (LHR)", "2023-02-05", "18:25", "QA", "Doha (DOH)", "2023-02-06", "04:15", "Original"),
      Leg("QA", "Doha (DOH)", "2023-02-06", "08:05", "TH", "Bangkok (BKK)", "2023-02-06", "18:25", "Original"),
      Leg("MY", "Kuala Lumpur (KUL)", "2023-03-10", "20:15", "LK", "Colombo (CMB)", "2023-03-10", "21:15", "Original")>>

\* C26: the days_between of every gap is the number of days from the arrival_date
\* of the leg before the gap to the departure_date of the leg after it, negative
\* when that departure is the earlier date, and 0 when one of the two dates
\* does not parse; the legs London -> Doha, Doha -> Bangkok, Kuala Lumpur ->
\* Colombo of the tests have exactly one gap, of 32 days.
C26_DaysBetweenIsDateDifference ==
    GapsIdentified =>
        /\ \A g \in 1..Len(gaps) :
            LET arrival_date == travel_data[gaps[g].gap_index + 1].arrival_date
                departure_date == travel_data[gaps[g].gap_index + 2].departure_date
            IN  gaps[g].days_between =
                    IF arrival_date \in DOMAIN DayOfYear /\ departure_date \in DOMAIN DayOfYear
                    THEN DayOfYear[departure_date] - DayOfYear[arrival_date]
                    ELSE 0
        /\ travel_data = TestLegs => (Len(gaps) = 1 /\ gaps[1].days_between = 32)

\* the legs of the tests, with their gap of 32 days between Bangkok and Kuala Lumpur
C26_Witness ==
    /\ GapsIdentified
    /\ travel_data = TestLegs
    /\ Len(gaps) = 1
    /\ gaps[1].current_arrival = "Bangkok" /\ gaps[1].next_departure = "Kuala Lumpur"
    /\ gaps[1].days_between = 32

\* the cleaned form of a candidate of the extraction stage
Cleaned(entry) == clean_travel_entry(entry, Get(entry, "source_file", "Unknown"))

\* how often the extraction stage returned a candidate that cleans to the leg
TimesExtracted(leg) ==
    Cardinality({k \in 1..Len(all_travel_entries) : Cleaned(all_travel_entries[k]) = leg})

\* C27: a candidate the extraction stage returned once occurs at most once in the
\* pool found_entries handed to the merger, and at most once in the merged
\* itinerary, also when it matched several gaps.
C27_CandidateOnceInPool ==
    TableGenerated =>
        \A leg \in {Cleaned(all_travel_entries[k]) : k \in 1..Len(all_travel_entries)} :
            /\ Cardinality({k \in 1..Len(found_entries) : found_entries[k] = leg})
                   <= TimesExtracted(leg)
            /\ Cardinality({p \in 1..Len(merged) :
                                merged[p].origin = "found_entries" /\ merged[p].entry = leg})
                   <= TimesExtracted(leg)

\* the gaps behind whose original leg generate_complete_table spliced a candidate
SplicedGaps == {g \in 1..Len(gaps) : SplicedBehind(gaps[g].gap_index + 1) # {}}

\* the gaps check_gaps_filled finds a connection for: a leg of complete_data at a
\* position (from 0) after the gap's index joins the two cities of the gap
ConnectedGaps ==
    {g \in 1..Len(gaps) :
        \E p \in 1..Len(complete_data) :
            /\ p - 1 > gaps[g].gap_index
            /\ CityToken[complete_data[p].departure_city] = CityToken[gaps[g].current_arrival]
            /\ CityToken[complete_data[p].arrival_city] = CityToken[gaps[g].next_departure]}

\* C28: every gap behind whose original leg generate_complete_table spliced a
\* candidate is counted as filled by check_gaps_filled on the merged sequence,
\* however many candidates were spliced before it.
C28_SplicedGapCountsAsFilled ==
    GapsChecked =>
        /\ SplicedGaps \subseteq ConnectedGaps
        /\ gaps_filled = Cardinality(ConnectedGaps)
        /\ gaps_filled >= Cardinality(SplicedGaps)

\* two gaps, a candidate spliced behind the leg of each: the second stands two
\* positions behind the gap's index and both gaps count as filled
C28_Witness ==
    /\ GapsChecked
    /\ Len(gaps) = 2
    /\ SplicedGaps = {1, 2}
    /\ PositionOfLeg(gaps[2].gap_index + 1) = gaps[2].gap_index + 2
    /\ gaps_filled = 2

\* C29: check_gaps_filled counts a gap as filled only for a leg that was added by
\* reconciliation: when the candidate pool is empty, so that the merged sequence
\* holds the original legs only, no gap is counted as filled and every gap is
\* counted as remaining.
C29_NothingFilledWithoutCandidates ==
    (GapsChecked /\ found_entries = <<>>) =>
        /\ gaps_filled = 0
        /\ gaps_remaining = Len(gaps)
=============================================================================
